---- MODULE Spec2Model ----
(***************************************************************************)
(* A model of the cost-projection tools of message_ix_models               *)
(* (tools/costs/projections.py and tools/costs/splines.py), of the         *)
(* transport data readers (model/transport/data/CHN_IND.py and             *)
(* model/transport/non_ldv.py) and of the demand adjustment of             *)
(* model/material/data_util.py.                                            *)
(*                                                                         *)
(* A pandas DataFrame is modelled as a set of records (one record per row, *)
(* one field per column).  A merge is the set of joined pairs of rows, a   *)
(* query is a set filter, assign computes a field of every row, and        *)
(* drop_duplicates is implied by the set.                                  *)
(***************************************************************************)
EXTENDS Integers, Sequences, FiniteSets, TLC

VARIABLES
    \* create_projections_learning / _gdp / _converge
    proj_pc, proj_method, in_scenario, in_scenario_version, in_convergence_year,
    df_region_diff, df_ref_reg_learning, df_adj_cost_ratios,
    df_pre_costs, df_costs, proj_raised,
    \* create_message_outputs
    msg_pc, df_projections, fom_rate, df_merge, inv, fom,
    \* create_iamc_outputs
    iamc_pc, msg_inv, msg_fix, iamc_inv, iamc_fix,
    \* project_capital_costs_using_learning_rates
    spl_pc, df_learning_rates, df_region_diff_r11, df_technology_first_year,
    df_cost, df_adj,
    \* create_cost_projections
    cost_pc, config, calls, cost_df_costs, cost_message, cost_result,
    \* apply_polynominal_regression_NAM_costs
    reg_pc, df_tech_costs, df_regression, reg_raised,
    \* get_chn_ind_data
    chn_pc, FILES, private_vehicles, chn_csv, chn_parsed, chn_df, chn_raised,
    chn_calls,
    \* prepare_computer
    nldv_pc, nldv_source, nldv_keys, nldv_graph, nldv_raised,
    \* modify_demand_and_hist_activity
    dem_pc, dem_shares, scen_committed, scen_data, scen_checked_out,
    useful, df_hist, dem_raised, dem_runs

projVars == <<proj_pc, proj_method, in_scenario, in_scenario_version,
              in_convergence_year, df_region_diff, df_ref_reg_learning,
              df_adj_cost_ratios, df_pre_costs, df_costs, proj_raised>>

msgVars == <<msg_pc, df_projections, fom_rate, df_merge, inv, fom>>

iamcVars == <<iamc_pc, msg_inv, msg_fix, iamc_inv, iamc_fix>>

splVars == <<spl_pc, df_learning_rates, df_region_diff_r11,
             df_technology_first_year, df_cost, df_adj>>

costVars == <<cost_pc, config, calls, cost_df_costs, cost_message, cost_result>>

regVars == <<reg_pc, df_tech_costs, df_regression, reg_raised>>

chnVars == <<chn_pc, FILES, private_vehicles, chn_csv, chn_parsed, chn_df,
             chn_raised, chn_calls>>

nldvVars == <<nldv_pc, nldv_source, nldv_keys, nldv_graph, nldv_raised>>

demVars == <<dem_pc, dem_shares, scen_committed, scen_data, scen_checked_out,
             useful, df_hist, dem_raised, dem_runs>>

vars == <<projVars, msgVars, iamcVars, splVars, costVars,
          regVars, chnVars, nldvVars, demVars>>

notProjVars == <<msgVars, iamcVars, splVars, costVars,
    regVars, chnVars, nldvVars, demVars>>
notMsgVars == <<projVars, iamcVars, splVars, costVars,
    regVars, chnVars, nldvVars, demVars>>
notIamcVars == <<projVars, msgVars, splVars, costVars,
    regVars, chnVars, nldvVars, demVars>>
notSplVars == <<projVars, msgVars, iamcVars, costVars,
    regVars, chnVars, nldvVars, demVars>>
notCostVars == <<projVars, msgVars, iamcVars, splVars,
    regVars, chnVars, nldvVars, demVars>>
costToolVars == <<projVars, msgVars, iamcVars, splVars, costVars>>
notRegVars == <<costToolVars, chnVars, nldvVars, demVars>>
notChnVars == <<costToolVars, regVars, nldvVars, demVars>>
notNldvVars == <<costToolVars, regVars, chnVars, demVars>>
notDemVars == <<costToolVars, regVars, chnVars, nldvVars>>

(***************************************************************************)
(* Constants of tools/costs/config.py, imported by projections.py.         *)
(***************************************************************************)
BASE_YEAR == 2021
FIRST_MODEL_YEAR == 2020
HORIZON_START == 1960
HORIZON_END == 2110

\* Python's None, for the optional arguments.
None == "None"

(***************************************************************************)
(* Bounds of the model.                                                    *)
(***************************************************************************)
\* How many alternative tables of regional cost ratios the inputs are drawn from.
MaxRatio == 2
\* How many alternative sets of scenarios the learning data may cover.
MaxLearnSets == 2

(***************************************************************************)
(* The scenario selection shared by the three projection routines.         *)
(***************************************************************************)
\* scen = ["SSP1", "SSP2", "SSP3", "SSP4", "SSP5", "LED"]
AllScenarios == {"SSP1", "SSP2", "SSP3", "SSP4", "SSP5", "LED"}

\* str.upper() on the scenario names the callers pass.
upper(s) ==
    CASE s = "ssp1" -> "SSP1"
      [] s = "ssp2" -> "SSP2"
      [] s = "Ssp3" -> "SSP3"
      [] s = "led"  -> "LED"
      [] s = "All"  -> "ALL"
      [] OTHER      -> s

\* if in_scenario == "all": scen = [...] else: scen = in_scenario.upper()
\* The set of scenario names that `scenario == @scen` keeps.
scen(scenario) ==
    IF scenario = "all" THEN AllScenarios ELSE {upper(scenario)}

\* if in_scenario_version == "all": ... elif "updated": ... elif "original": ...
\* (any other value leaves scen_vers unbound).
scen_vers(version) ==
    CASE version = "all"      -> {"Review (2023)", "Previous (2013)"}
      [] version = "updated"  -> {"Review (2023)"}
      [] version = "original" -> {"Previous (2013)"}
      [] OTHER                -> {}

\* "Selected scenario: " + in_scenario raises TypeError unless in_scenario is a
\* str; `scen = scen` raises UnboundLocalError when no branch bound it.
print_raises(arg) == arg = None
scen_vers_unbound(version) == version \notin {"all", "updated", "original"}

(***************************************************************************)
(* The cost formulas of the three routines.                                *)
(***************************************************************************)
\* np.where(x.year <= FIRST_MODEL_YEAR, x.reg_cost_base_year,
\*          x.inv_cost_ref_region_learning * x.reg_cost_ratio)
inv_cost_mut_strict(year, reg_cost_base_year, learning, ratio) ==
    IF year < FIRST_MODEL_YEAR THEN reg_cost_base_year ELSE learning * ratio
inv_cost(year, reg_cost_base_year, learning, ratio) ==
    IF year <= FIRST_MODEL_YEAR THEN reg_cost_base_year ELSE learning * ratio

\* np.where(x.year <= FIRST_MODEL_YEAR, x.reg_cost_base_year,
\*   np.where(x.year < in_convergence_year,
\*            x.inv_cost_ref_region_learning * x.reg_cost_ratio,
\*            x.inv_cost_ref_region_learning))
inv_cost_converge_mut_late(year, convergence_year, reg_cost_base_year, learning, ratio) ==
    IF year <= FIRST_MODEL_YEAR THEN reg_cost_base_year
    ELSE IF year <= convergence_year THEN learning * ratio
    ELSE learning
inv_cost_converge(year, convergence_year, reg_cost_base_year, learning, ratio) ==
    IF year <= FIRST_MODEL_YEAR THEN reg_cost_base_year
    ELSE IF year < convergence_year THEN learning * ratio
    ELSE learning

\* df_region_diff.merge(df_ref_reg_learning, on="message_technology")
merge_on_technology(region_diff, learning) ==
    {x \in region_diff \X learning :
        x[1].message_technology = x[2].message_technology}

\* The body of create_projections_learning after the scenario filter.
learning_costs(region_diff, learning) ==
    {[scenario_version   |-> "Not applicable",
      scenario           |-> x[2].scenario,
      message_technology |-> x[1].message_technology,
      region             |-> x[1].region,
      year               |-> x[2].year,
      inv_cost           |-> inv_cost(x[2].year, x[1].reg_cost_base_year,
                                      x[2].inv_cost_ref_region_learning,
                                      x[1].reg_cost_ratio),
      fix_cost           |-> inv_cost(x[2].year, x[1].reg_cost_base_year,
                                      x[2].inv_cost_ref_region_learning,
                                      x[1].reg_cost_ratio) * x[1].fix_ratio] :
     x \in merge_on_technology(region_diff, learning)}

\* .merge(df_adj_cost_ratios, on=["scenario", "message_technology", "region", "year"])
merge_adj(merged, adj) ==
    {y \in merged \X adj :
        /\ y[1][2].scenario = y[2].scenario
        /\ y[1][1].message_technology = y[2].message_technology
        /\ y[1][1].region = y[2].region
        /\ y[1][2].year = y[2].year}

\* The body of create_projections_gdp after the scenario filters.
gdp_costs(region_diff, learning, adj) ==
    {[scenario_version   |-> y[2].scenario_version,
      scenario           |-> y[2].scenario,
      message_technology |-> y[2].message_technology,
      region             |-> y[2].region,
      year               |-> y[2].year,
      inv_cost           |-> inv_cost(y[2].year, y[1][1].reg_cost_base_year,
                                      y[1][2].inv_cost_ref_region_learning,
                                      y[2].reg_cost_ratio_adj),
      fix_cost           |-> inv_cost(y[2].year, y[1][1].reg_cost_base_year,
                                      y[1][2].inv_cost_ref_region_learning,
                                      y[2].reg_cost_ratio_adj) * y[1][1].fix_ratio] :
     y \in merge_adj(merge_on_technology(region_diff, learning), adj)}

\* df_pre_costs of create_projections_converge.
pre_costs(region_diff, learning, convergence_year) ==
    {[scenario           |-> x[2].scenario,
      message_technology |-> x[1].message_technology,
      region             |-> x[1].region,
      year               |-> x[2].year,
      reg_cost_base_year |-> x[1].reg_cost_base_year,
      reg_cost_ratio     |-> x[1].reg_cost_ratio,
      fix_ratio          |-> x[1].fix_ratio,
      inv_cost_ref_region_learning |-> x[2].inv_cost_ref_region_learning,
      inv_cost_converge  |-> inv_cost_converge(x[2].year, convergence_year,
                                  x[1].reg_cost_base_year,
                                  x[2].inv_cost_ref_region_learning,
                                  x[1].reg_cost_ratio)] :
     x \in merge_on_technology(region_diff, learning)}

\* df_ref_reg_learning.query("scenario == @scen")
query_scenario(learning, scenario) ==
    {l \in learning : l.scenario \in scen(scenario)}

\* df_adj_cost_ratios.query("scenario_version == @scen_vers and scenario == @scen")
query_adj_mut_noversion(adj, scenario, version) ==
    {a \in adj : a.scenario \in scen(scenario)}
query_adj(adj, scenario, version) ==
    {a \in adj : a.scenario_version \in scen_vers(version)
                 /\ a.scenario \in scen(scenario)}

(***************************************************************************)
(* Input tables of the projection routines.  They are the outputs of       *)
(* apply_regional_differentiation,                                         *)
(* project_ref_region_inv_costs_using_learning_rates and                   *)
(* adjust_cost_ratios_with_gdp, drawn here from small families.            *)
(***************************************************************************)
Technologies == {"coal_ppl", "wind_ppl"}
Regions == {"R12_NAM", "R12_CHN"}
ProjectionYears == {2015, 2020, 2025, 2050, 2100}
ScenarioVersions == {"Review (2023)", "Previous (2013)"}

BaseCost(t) == IF t = "coal_ppl" THEN 1000 ELSE 2000
FixRatio(t) == IF t = "coal_ppl" THEN 2 ELSE 3
ScenarioIndex(s) ==
    CASE s = "SSP1" -> 1 [] s = "SSP2" -> 2 [] s = "SSP3" -> 3
      [] s = "SSP4" -> 4 [] s = "SSP5" -> 5 [] OTHER -> 6

\* Regional differentiation: the reference region has ratio 1, the other k.
RegionDiff(k) ==
    {[message_technology |-> t,
      region             |-> r,
      reg_cost_base_year |-> BaseCost(t) * (IF r = "R12_NAM" THEN 1 ELSE k),
      reg_cost_ratio     |-> IF r = "R12_NAM" THEN 1 ELSE k,
      fix_ratio          |-> FixRatio(t)] : t \in Technologies, r \in Regions}

\* The scenarios the learning data cover.
LearnScenarios(i) ==
    CASE i = 1 -> {"SSP1", "SSP2", "LED"}
      [] i = 2 -> AllScenarios
      [] OTHER -> {"SSP2"}

\* Reference-region costs falling with the years, faster in later scenarios.
Learning(i) ==
    {[scenario           |-> s,
      message_technology |-> t,
      year               |-> y,
      inv_cost_ref_region_learning |->
          BaseCost(t) - ((y - 2015) \div 5) * ScenarioIndex(s)] :
     s \in LearnScenarios(i), t \in Technologies, y \in ProjectionYears}

\* GDP-adjusted ratios, different for the two scenario versions.
AdjCostRatios(k, i) ==
    {[scenario_version   |-> v,
      scenario           |-> s,
      message_technology |-> t,
      region             |-> r,
      year               |-> y,
      reg_cost_ratio_adj |-> 10 * (IF r = "R12_NAM" THEN 1 ELSE k)
                             + ScenarioIndex(s)
                             + (IF v = "Review (2023)" THEN 0 ELSE 100)] :
     v \in ScenarioVersions, s \in LearnScenarios(i), t \in Technologies,
     r \in Regions, y \in ProjectionYears}

InScenarios == {None, "all", "ssp2", "SSP1", "led", "All"}
InScenarioVersions == {None, "all", "updated", "original", "new"}
InConvergenceYears == {2020, 2050}

\* apply_splines_to_convergence (tools/costs/splines.py of the package): the
\* smoothed cost of every row of df_pre_costs; `smooth` is the deviation of the
\* fit from the pre-spline cost.
apply_splines_to_convergence(pre, smooth) ==
    {[scenario           |-> p.scenario,
      message_technology |-> p.message_technology,
      region             |-> p.region,
      year               |-> p.year,
      inv_cost_splines   |-> p.inv_cost_converge + smooth] : p \in pre}

\* df_pre_costs.merge(df_splines, on=[...], how="outer") ... .assign(fix_cost=...)
converge_costs(pre, splines) ==
    {[scenario_version   |-> "Not applicable",
      scenario           |-> z[1].scenario,
      message_technology |-> z[1].message_technology,
      region             |-> z[1].region,
      year               |-> z[1].year,
      inv_cost           |-> z[2].inv_cost_splines,
      fix_cost           |-> z[2].inv_cost_splines * z[1].fix_ratio] :
     z \in {w \in pre \X splines :
              /\ w[1].scenario = w[2].scenario
              /\ w[1].message_technology = w[2].message_technology
              /\ w[1].region = w[2].region
              /\ w[1].year = w[2].year}}

(***************************************************************************)
(* The three projection routines, each called directly with its arguments. *)
(***************************************************************************)
(***************************************************************************)
(* Module-level data of model/transport/data/CHN_IND.py.                   *)
(***************************************************************************)
\* FILES as the import of the module leaves it: name of the file and rows to
\* skip from the bottom.
FILES_imported ==
    [k \in {"Passenger activity", "Vehicle stock civil",
            "Vehicle stock private", "Freight activity"} |->
        CASE k = "Passenger activity"    -> <<"CHN_activity-passenger.csv", 4>>
          [] k = "Vehicle stock civil"   -> <<"CHN_stock-civil.csv", 5>>
          [] k = "Vehicle stock private" -> <<"CHN_stock-private.csv", 1>>
          [] k = "Freight activity"      -> <<"CHN_activity-freight.csv", 5>>]

\* The routines of the other entry points have not been called.
RegIdle ==
    /\ reg_pc = "idle"
    /\ df_tech_costs = {}
    /\ df_regression = <<>>
    /\ reg_raised = ""

\* The module has been imported: FILES holds its four entries.
ChnIdle ==
    /\ chn_pc = "idle"
    /\ FILES = FILES_imported
    /\ private_vehicles = FALSE
    /\ chn_csv = {}
    /\ chn_parsed = {}
    /\ chn_df = {}
    /\ chn_raised = ""
    /\ chn_calls = 0

NldvIdle ==
    /\ nldv_pc = "idle"
    /\ nldv_source = None
    /\ nldv_keys = <<>>
    /\ nldv_graph = <<>>
    /\ nldv_raised = ""

DemIdle ==
    /\ dem_pc = "idle"
    /\ dem_shares = <<>>
    /\ scen_committed = [demand |-> {}, historical_activity |-> {}]
    /\ scen_data = [demand |-> {}, historical_activity |-> {}]
    /\ scen_checked_out = FALSE
    /\ useful = <<>>
    /\ df_hist = <<>>
    /\ dem_raised = <<>>
    /\ dem_runs = 0

OtherModulesIdle == RegIdle /\ ChnIdle /\ NldvIdle /\ DemIdle

CostIdle ==
    /\ cost_pc = "idle"
    /\ config = [method |-> None]
    /\ calls = <<>>
    /\ cost_df_costs = {}
    /\ cost_message = [inv |-> {}, fom |-> {}]
    /\ cost_result = [inv_cost |-> {}, fix_cost |-> {}]

SplIdle ==
    /\ spl_pc = "idle"
    /\ df_learning_rates = {}
    /\ df_region_diff_r11 = {}
    /\ df_technology_first_year = {}
    /\ df_cost = {}
    /\ df_adj = {}

IamcIdle ==
    /\ iamc_pc = "idle"
    /\ msg_inv = {}
    /\ msg_fix = {}
    /\ iamc_inv = {}
    /\ iamc_fix = {}

MsgIdle ==
    /\ msg_pc = "idle"
    /\ df_projections = {}
    /\ fom_rate = 0
    /\ df_merge = {}
    /\ inv = {}
    /\ fom = {}

ProjIdle ==
    /\ proj_pc = "idle"
    /\ proj_method = None
    /\ in_scenario = None
    /\ in_scenario_version = None
    /\ in_convergence_year = 2050
    /\ df_region_diff = {}
    /\ df_ref_reg_learning = {}
    /\ df_adj_cost_ratios = {}
    /\ df_pre_costs = {}
    /\ df_costs = {}
    /\ proj_raised = ""

CostToolsIdle == CostIdle /\ SplIdle /\ IamcIdle /\ MsgIdle /\ ProjIdle

ProjInit ==
    /\ OtherModulesIdle
    /\ CostIdle
    /\ SplIdle
    /\ MsgIdle
    /\ IamcIdle
    /\ proj_pc = "call"
    /\ proj_method \in {"learning", "gdp", "convergence"}
    /\ in_scenario \in InScenarios
    /\ in_scenario_version \in
         (IF proj_method = "gdp" THEN InScenarioVersions ELSE {None})
    /\ in_convergence_year \in
         (IF proj_method = "convergence" THEN InConvergenceYears ELSE {2050})
    /\ \E k \in 2..(MaxRatio + 1), i \in 1..MaxLearnSets :
          /\ df_region_diff = RegionDiff(k)
          /\ df_ref_reg_learning = Learning(i)
          /\ df_adj_cost_ratios = AdjCostRatios(k, i)
    /\ df_pre_costs = {}
    /\ df_costs = {}
    /\ proj_raised = ""

projInputs == <<proj_method, in_scenario, in_scenario_version,
                in_convergence_year, df_region_diff, df_ref_reg_learning,
                df_adj_cost_ratios>>

create_projections_learning ==
    /\ proj_pc = "call"
    /\ proj_method = "learning"
    /\ IF print_raises(in_scenario)
       THEN /\ proj_pc' = "raised"
            /\ proj_raised' = "TypeError"
            /\ df_costs' = df_costs
       ELSE /\ proj_pc' = "returned"
            /\ proj_raised' = proj_raised
            /\ df_costs' = learning_costs(df_region_diff,
                              query_scenario(df_ref_reg_learning, in_scenario))
    /\ UNCHANGED <<projInputs, df_pre_costs, notProjVars>>

create_projections_gdp ==
    /\ proj_pc = "call"
    /\ proj_method = "gdp"
    /\ IF print_raises(in_scenario) \/ print_raises(in_scenario_version)
       THEN /\ proj_pc' = "raised"
            /\ proj_raised' = "TypeError"
            /\ df_costs' = df_costs
       ELSE IF scen_vers_unbound(in_scenario_version)
       THEN /\ proj_pc' = "raised"
            /\ proj_raised' = "UnboundLocalError"
            /\ df_costs' = df_costs
       ELSE /\ proj_pc' = "returned"
            /\ proj_raised' = proj_raised
            /\ df_costs' = gdp_costs(df_region_diff,
                              query_scenario(df_ref_reg_learning, in_scenario),
                              query_adj(df_adj_cost_ratios, in_scenario,
                                        in_scenario_version))
    /\ UNCHANGED <<projInputs, df_pre_costs, notProjVars>>

create_projections_converge ==
    /\ proj_pc = "call"
    /\ proj_method = "convergence"
    /\ IF print_raises(in_scenario)
       THEN /\ proj_pc' = "raised"
            /\ proj_raised' = "TypeError"
            /\ UNCHANGED <<df_pre_costs, df_costs>>
       ELSE /\ proj_pc' = "returned"
            /\ proj_raised' = proj_raised
            /\ df_pre_costs' = pre_costs(df_region_diff,
                                  query_scenario(df_ref_reg_learning, in_scenario),
                                  in_convergence_year)
            /\ \E smooth \in {0, 1} :
                 df_costs' = converge_costs(df_pre_costs',
                                apply_splines_to_convergence(df_pre_costs', smooth))
    /\ UNCHANGED <<projInputs, notProjVars>>

ProjNext ==
    \/ create_projections_learning
    \/ create_projections_gdp
    \/ create_projections_converge

SpecProjections == ProjInit /\ [][ProjNext]_vars

(***************************************************************************)
(* Claims about the projection routines.                                   *)
(***************************************************************************)

\* C2: when in_scenario is None the three routines apply no scenario filter
\* and complete normally, returning projections for every scenario present
\* in the learning data.
C2_NoneScenarioCompletes ==
    (in_scenario = None /\ proj_pc # "call") =>
        /\ proj_pc = "returned"
        /\ {r.scenario : r \in df_costs} =
           {l.scenario : l \in df_ref_reg_learning}

\* C3: every row returned by the learning and the gdp routine has inv_cost =
\* reg_cost_base_year when year <= FIRST_MODEL_YEAR, and otherwise the
\* reference-region learning cost times the region's cost ratio
\* (reg_cost_ratio for learning, reg_cost_ratio_adj for gdp); fix_cost =
\* inv_cost * fix_ratio; for learning scenario_version is "Not applicable".
C3_InvCostFormula ==
    (proj_pc = "returned" /\ proj_method \in {"learning", "gdp"}) =>
        \A r \in df_costs :
            \E d \in df_region_diff, l \in df_ref_reg_learning :
                /\ d.message_technology = r.message_technology
                /\ d.region = r.region
                /\ l.message_technology = r.message_technology
                /\ l.scenario = r.scenario
                /\ l.year = r.year
                /\ r.fix_cost = r.inv_cost * d.fix_ratio
                /\ r.year <= FIRST_MODEL_YEAR => r.inv_cost = d.reg_cost_base_year
                /\ (r.year > FIRST_MODEL_YEAR /\ proj_method = "learning") =>
                       r.inv_cost = l.inv_cost_ref_region_learning * d.reg_cost_ratio
                /\ (r.year > FIRST_MODEL_YEAR /\ proj_method = "gdp") =>
                       \E a \in df_adj_cost_ratios :
                           /\ a.scenario_version = r.scenario_version
                           /\ a.scenario = r.scenario
                           /\ a.message_technology = r.message_technology
                           /\ a.region = r.region
                           /\ a.year = r.year
                           /\ r.inv_cost = l.inv_cost_ref_region_learning
                                           * a.reg_cost_ratio_adj
                /\ proj_method = "learning" =>
                       r.scenario_version = "Not applicable"

\* The learning routine has returned rows on both sides of FIRST_MODEL_YEAR
\* for a region whose cost ratio is not 1.
C3_Witness ==
    /\ proj_pc = "returned"
    /\ proj_method = "learning"
    /\ \E r1, r2 \in df_costs :
          /\ r1.region = "R12_CHN" /\ r2.region = "R12_CHN"
          /\ r1.year <= FIRST_MODEL_YEAR
          /\ r2.year > FIRST_MODEL_YEAR
          /\ r1.inv_cost # r2.inv_cost

\* C4: the rows returned by the gdp routine carry only the scenario versions
\* selected by in_scenario_version (updated: Review (2023); original:
\* Previous (2013); all: both) and only the selected scenarios (all: the six
\* scenarios; any other value: the upper-cased in_scenario).
C4_GdpSelection ==
    (proj_pc = "returned" /\ proj_method = "gdp") =>
        \A r \in df_costs :
            /\ in_scenario_version = "updated" => r.scenario_version = "Review (2023)"
            /\ in_scenario_version = "original" => r.scenario_version = "Previous (2013)"
            /\ in_scenario_version = "all" =>
                   r.scenario_version \in {"Review (2023)", "Previous (2013)"}
            /\ in_scenario = "all" =>
                   r.scenario \in {"SSP1", "SSP2", "SSP3", "SSP4", "SSP5", "LED"}
            /\ in_scenario = "ssp2" => r.scenario = "SSP2"
            /\ in_scenario = "SSP1" => r.scenario = "SSP1"
            /\ in_scenario = "led" => r.scenario = "LED"
            /\ in_scenario = "All" => r.scenario = "ALL"

\* The gdp routine has returned rows for one lower-case scenario and one
\* scenario version, from data that hold both versions and other scenarios.
C4_Witness ==
    /\ proj_pc = "returned"
    /\ proj_method = "gdp"
    /\ in_scenario = "ssp2"
    /\ in_scenario_version = "original"
    /\ df_costs # {}
    /\ \E a \in df_adj_cost_ratios :
          a.scenario_version = "Review (2023)" /\ a.scenario = "SSP1"

\* C5: in create_projections_converge the pre-spline cost inv_cost_converge is
\* reg_cost_base_year for year <= FIRST_MODEL_YEAR, the reference-region
\* learning cost times reg_cost_ratio for FIRST_MODEL_YEAR < year <
\* in_convergence_year, and exactly the reference-region learning cost (the
\* same for all regions of a technology and scenario) for every later year
\* >= in_convergence_year.
C5_ConvergePreCosts ==
    (proj_pc = "returned" /\ proj_method = "convergence") =>
        /\ \A p \in df_pre_costs :
              \E d \in df_region_diff, l \in df_ref_reg_learning :
                  /\ d.message_technology = p.message_technology
                  /\ d.region = p.region
                  /\ l.message_technology = p.message_technology
                  /\ l.scenario = p.scenario
                  /\ l.year = p.year
                  /\ p.year <= FIRST_MODEL_YEAR =>
                         p.inv_cost_converge = d.reg_cost_base_year
                  /\ (FIRST_MODEL_YEAR < p.year /\ p.year < in_convergence_year) =>
                         p.inv_cost_converge =
                             l.inv_cost_ref_region_learning * d.reg_cost_ratio
                  /\ (FIRST_MODEL_YEAR < p.year /\ p.year >= in_convergence_year) =>
                         p.inv_cost_converge = l.inv_cost_ref_region_learning
        /\ \A p, q \in df_pre_costs :
              (/\ p.message_technology = q.message_technology
               /\ p.scenario = q.scenario
               /\ p.year = q.year
               /\ p.year > FIRST_MODEL_YEAR
               /\ p.year >= in_convergence_year) =>
                  p.inv_cost_converge = q.inv_cost_converge

\* The convergence routine has returned, with rows before and at the
\* convergence year for a region whose cost ratio is not 1.
C5_Witness ==
    /\ proj_pc = "returned"
    /\ proj_method = "convergence"
    /\ in_convergence_year = 2050
    /\ \E p, q \in df_pre_costs :
          /\ p.region = "R12_CHN" /\ q.region = "R12_CHN"
          /\ p.year = 2025
          /\ q.year = in_convergence_year
          /\ p.inv_cost_converge # p.inv_cost_ref_region_learning
          /\ q.inv_cost_converge = q.inv_cost_ref_region_learning

(***************************************************************************)
(* Numbers of create_message_outputs.  A cost is m * 2^e (m odd, or 0), or *)
(* NaN, the value a left merge leaves where the right table has no row.    *)
(* Products and powers are exact in this form for the rates 0 and 1.       *)
(***************************************************************************)
NaN == [nan |-> TRUE, m |-> 0, e |-> 0]

RECURSIVE Number(_, _)
Number(m, e) ==
    IF m = 0 THEN [nan |-> FALSE, m |-> 0, e |-> 0]
    ELSE IF m % 2 = 0 THEN Number(m \div 2, e + 1)
    ELSE [nan |-> FALSE, m |-> m, e |-> e]

\* a * b
Times(a, b) ==
    IF a.nan \/ b.nan THEN NaN ELSE Number(a.m * b.m, a.e + b.e)

\* a ** n
Power(a, n) ==
    IF a.nan THEN NaN ELSE Number(a.m ^ n, a.e * n)

(***************************************************************************)
(* create_message_outputs                                                  *)
(***************************************************************************)
\* seq_years = list(range(HORIZON_START, HORIZON_END + 5, 5))
seq_years == {y \in HORIZON_START..(HORIZON_END + 4) : (y - HORIZON_START) % 5 = 0}

\* df_prod: the product of the unique values of the four key columns and the years.
df_prod(projections) ==
    {[scenario_version   |-> sv,
      scenario           |-> s,
      message_technology |-> t,
      region             |-> r,
      year               |-> y] :
     sv \in {p.scenario_version : p \in projections},
     s \in {p.scenario : p \in projections},
     t \in {p.message_technology : p \in projections},
     r \in {p.region : p \in projections},
     y \in seq_years}

\* on=["scenario_version", "scenario", "message_technology", "region"]
same_key(a, b) ==
    /\ a.scenario_version = b.scenario_version
    /\ a.scenario = b.scenario
    /\ a.message_technology = b.message_technology
    /\ a.region = b.region

\* df_projections.query("year == 2020") and .query("year == 2100")
val_2020(projections) == {p \in projections : p.year = 2020}
val_2100(projections) == {p \in projections : p.year = 2100}

\* The rows a left merge on the five keys gives one row of the left table:
\* one per matching projection, or one of NaN when there is none.
left_merge(row, projections) ==
    LET match == {p \in projections : same_key(row, p) /\ p.year = row.year}
    IN  IF match = {}
        THEN {[inv_cost |-> NaN, fix_cost |-> NaN]}
        ELSE {[inv_cost |-> Number(p.inv_cost, 0),
               fix_cost |-> Number(p.fix_cost, 0)] : p \in match}

\* np.where(x.year <= BASE_YEAR, x.inv_cost_2020, x.inv_cost), then
\* np.where(x.year >= 2100, x.inv_cost_2100, x.inv_cost)
clamp_mut_no2100(year, cost_2020, cost_2100, cost) ==
    IF year <= BASE_YEAR THEN cost_2020 ELSE cost
clamp(year, cost_2020, cost_2100, cost) ==
    IF year >= 2100 THEN cost_2100
    ELSE IF year <= BASE_YEAR THEN cost_2020
    ELSE cost

df_merge_rows(projections) ==
    UNION {
      {[scenario_version   |-> j[1].scenario_version,
        scenario           |-> j[1].scenario,
        message_technology |-> j[1].message_technology,
        region             |-> j[1].region,
        year_vtg           |-> j[1].year,
        inv_cost           |-> clamp(j[1].year, Number(j[2].inv_cost, 0),
                                     Number(j[3].inv_cost, 0), c.inv_cost),
        fix_cost           |-> clamp(j[1].year, Number(j[2].fix_cost, 0),
                                     Number(j[3].fix_cost, 0), c.fix_cost)] :
       c \in left_merge(j[1], projections)} :
      j \in {k \in df_prod(projections) \X val_2020(projections)
                   \X val_2100(projections) :
               same_key(k[1], k[2]) /\ same_key(k[1], k[3])}}

\* .query("year_vtg <= 2060 or year_vtg % 10 == 0")
year_kept_mut_all(year) == TRUE
year_kept(year) == year <= 2060 \/ year % 10 = 0

\* inv: the investment-cost table.
inv_table(merged) ==
    {[scenario_version |-> r.scenario_version,
      scenario         |-> r.scenario,
      node_loc         |-> r.region,
      technology       |-> r.message_technology,
      year_vtg         |-> r.year_vtg,
      value            |-> r.inv_cost,
      unit             |-> "USD/kWa"] :
     r \in {q \in merged : year_kept(q.year_vtg)}}

\* val: the fixed cost of vintage year_vtg in the year year_act.
fom_value_mut_vintage(year_vtg, year_act, fix_cost, rate) ==
    Times(fix_cost, Power(Number(1 + rate, 0), year_act - year_vtg))
fom_value(year_vtg, year_act, fix_cost, rate) ==
    IF year_vtg <= BASE_YEAR
    THEN IF year_act <= BASE_YEAR
         THEN fix_cost
         ELSE Times(fix_cost, Power(Number(1 + rate, 0), year_act - BASE_YEAR))
    ELSE Times(fix_cost, Power(Number(1 + rate, 0), year_act - year_vtg))

\* fom: the fixed-cost table.
fom_table(merged, rate) ==
    {[scenario_version |-> x[1].scenario_version,
      scenario         |-> x[1].scenario,
      node_loc         |-> x[1].region,
      technology       |-> x[1].message_technology,
      year_vtg         |-> x[1].year_vtg,
      year_act         |-> x[2],
      value            |-> fom_value(x[1].year_vtg, x[2], x[1].fix_cost, rate),
      unit             |-> "USD/kWa"] :
     x \in {w \in merged \X seq_years :
              /\ w[2] >= w[1].year_vtg
              /\ year_kept(w[1].year_vtg)
              /\ year_kept(w[2])}}

(***************************************************************************)
(* Inputs of create_message_outputs: the projections of some combinations  *)
(* of scenario version, scenario, technology and region, one row per year  *)
(* of the grid, with the rows of some years missing.                       *)
(***************************************************************************)
\* How many alternative sets of combinations the projections are drawn from.
MaxCombinations == 3
\* How many alternative cost levels the projections are drawn from.
MaxLevel == 2

Combination(sv, s, t, r) ==
    [scenario_version |-> sv, scenario |-> s, message_technology |-> t, region |-> r]

Combinations(i) ==
    CASE i = 1 -> {Combination("Not applicable", "SSP2", "coal_ppl", "R12_NAM")}
      [] i = 2 -> {Combination("Not applicable", "SSP2", "coal_ppl", "R12_NAM"),
                   Combination("Not applicable", "SSP2", "wind_ppl", "R12_CHN")}
      [] i = 3 -> {Combination("Review (2023)", "SSP1", "coal_ppl", "R12_NAM"),
                   Combination("Previous (2013)", "SSP1", "coal_ppl", "R12_NAM"),
                   Combination("Previous (2013)", "LED", "coal_ppl", "R12_NAM")}
      [] OTHER -> {Combination("Review (2023)", "SSP5", "wind_ppl", "R12_CHN")}

\* The years whose rows are missing for the coal_ppl rows of the projections.
MissingYears == {{}, {2030}, {2110}, {2020}, {2100}, {1960, 1965}}

\* Costs falling by the year, different for every combination.
Projections(i, level, missing) ==
    {[scenario_version   |-> x[1].scenario_version,
      scenario           |-> x[1].scenario,
      message_technology |-> x[1].message_technology,
      region             |-> x[1].region,
      year               |-> x[2],
      inv_cost           |-> 1000 * level + 3 * ((HORIZON_END - x[2]) \div 5)
                             + ScenarioIndex(x[1].scenario)
                             + (IF x[1].scenario_version = "Previous (2013)"
                                THEN 500 ELSE 0),
      fix_cost           |-> 100 * level + 2 * ((HORIZON_END - x[2]) \div 5)
                             + ScenarioIndex(x[1].scenario)
                             + (IF x[1].scenario_version = "Previous (2013)"
                                THEN 50 ELSE 0)] :
     x \in {w \in Combinations(i) \X seq_years :
              w[1].message_technology = "coal_ppl" => w[2] \notin missing}}

FomRates == {0, 1}

MsgInit ==
    /\ OtherModulesIdle
    /\ CostIdle
    /\ SplIdle
    /\ ProjIdle
    /\ IamcIdle
    /\ msg_pc = "call"
    /\ \E i \in 1..MaxCombinations, level \in 1..MaxLevel, missing \in MissingYears :
          df_projections = Projections(i, level, missing)
    /\ fom_rate \in FomRates
    /\ df_merge = {}
    /\ inv = {}
    /\ fom = {}

create_message_outputs ==
    /\ msg_pc = "call"
    /\ msg_pc' = "returned"
    /\ df_merge' = df_merge_rows(df_projections)
    /\ inv' = inv_table(df_merge')
    /\ fom' = fom_table(df_merge', fom_rate)
    /\ UNCHANGED <<df_projections, fom_rate, notMsgVars>>

MsgNext == create_message_outputs

SpecMessage == MsgInit /\ [][MsgNext]_vars

(***************************************************************************)
(* Claims about create_message_outputs.                                    *)
(***************************************************************************)
\* The number `num` is the integer n.
IsValue(num, n) == ~num.nan /\ num.m * (2 ^ num.e) = n

\* The projections of the combination and the year of an output row.
ProjectionsOf(row, year) ==
    {p \in df_projections :
        /\ p.scenario_version = row.scenario_version
        /\ p.scenario = row.scenario
        /\ p.message_technology = row.technology
        /\ p.region = row.node_loc
        /\ p.year = year}

\* C6: in the investment-cost table, every row with year_vtg <= BASE_YEAR has
\* the value of its combination's year-2020 projection, every row with
\* year_vtg >= 2100 that of its year-2100 projection, and every other row the
\* projection of its own year.
C6_InvestmentValues ==
    msg_pc = "returned" =>
        \A r \in inv :
            /\ r.year_vtg <= BASE_YEAR =>
                   \E p \in ProjectionsOf(r, 2020) : IsValue(r.value, p.inv_cost)
            /\ r.year_vtg >= 2100 =>
                   \E p \in ProjectionsOf(r, 2100) : IsValue(r.value, p.inv_cost)
            /\ (r.year_vtg > BASE_YEAR /\ r.year_vtg < 2100) =>
                   /\ \A p \in ProjectionsOf(r, r.year_vtg) :
                          IsValue(r.value, p.inv_cost)
                   /\ ProjectionsOf(r, r.year_vtg) = {} => r.value.nan

\* The table holds a row before the base year, one after 2100 and one between,
\* whose values are those of three different projections.
C6_Witness ==
    /\ msg_pc = "returned"
    /\ \E a, b, c \in inv :
          /\ a.technology = b.technology /\ b.technology = c.technology
          /\ a.scenario_version = b.scenario_version
          /\ b.scenario_version = c.scenario_version
          /\ a.scenario = b.scenario /\ b.scenario = c.scenario
          /\ a.year_vtg = HORIZON_START
          /\ b.year_vtg = 2050
          /\ c.year_vtg = HORIZON_END
          /\ ~a.value.nan /\ ~b.value.nan /\ ~c.value.nan
          /\ a.value # b.value /\ b.value # c.value
          /\ \E p \in ProjectionsOf(a, HORIZON_START) : ~IsValue(a.value, p.inv_cost)
          /\ \E p \in ProjectionsOf(c, HORIZON_END) : ~IsValue(c.value, p.inv_cost)

\* C7: in the fixed-cost table every row has year_act >= year_vtg; its value is
\* fix_cost(year_vtg) * (1 + fom_rate)^(year_act - year_vtg) when year_vtg >
\* BASE_YEAR; when year_vtg <= BASE_YEAR it is fix_cost for year_act <=
\* BASE_YEAR and fix_cost * (1 + fom_rate)^(year_act - BASE_YEAR) for later
\* year_act; with fom_rate = 0 the value does not depend on year_act.
C7_FixedCostValues ==
    msg_pc = "returned" =>
        /\ \A r \in fom :
              /\ r.year_act >= r.year_vtg
              /\ \E q \in df_merge :
                    /\ q.scenario_version = r.scenario_version
                    /\ q.scenario = r.scenario
                    /\ q.message_technology = r.technology
                    /\ q.region = r.node_loc
                    /\ q.year_vtg = r.year_vtg
                    /\ r.year_vtg > BASE_YEAR =>
                           r.value = Times(q.fix_cost,
                                           Power(Number(1 + fom_rate, 0),
                                                 r.year_act - r.year_vtg))
                    /\ (r.year_vtg <= BASE_YEAR /\ r.year_act <= BASE_YEAR) =>
                           r.value = q.fix_cost
                    /\ (r.year_vtg <= BASE_YEAR /\ r.year_act > BASE_YEAR) =>
                           r.value = Times(q.fix_cost,
                                           Power(Number(1 + fom_rate, 0),
                                                 r.year_act - BASE_YEAR))
        /\ fom_rate = 0 =>
              \A r1, r2 \in fom :
                  (/\ r1.scenario_version = r2.scenario_version
                   /\ r1.scenario = r2.scenario
                   /\ r1.technology = r2.technology
                   /\ r1.node_loc = r2.node_loc
                   /\ r1.year_vtg = r2.year_vtg) => r1.value = r2.value

\* With a rate other than 0 the table holds rows of a vintage before the base
\* year, active before and after it, and rows of a later vintage.
C7_Witness ==
    /\ msg_pc = "returned"
    /\ fom_rate = 1
    /\ \E a \in {r \in fom : r.year_vtg = 2015 /\ r.year_act = 2020} :
          /\ ~a.value.nan
          /\ \E b \in {r \in fom : r.year_vtg = 2015 /\ r.year_act = 2030} :
                /\ a.technology = b.technology /\ a.scenario = b.scenario
                /\ a.scenario_version = b.scenario_version
                /\ b.value = Times(a.value, Number(1, 2030 - BASE_YEAR))
    /\ \E c \in {r \in fom : r.year_vtg = 2030 /\ r.year_act = 2040} :
          ~c.value.nan /\ c.value.e >= 10

\* C8: both tables contain only years of the grid HORIZON_START,
\* HORIZON_START + 5, ..., HORIZON_END, and of these only years <= 2060 or
\* multiples of 10; in the fixed-cost table this holds for year_vtg and year_act.
OnGrid(y) ==
    /\ \E k \in 0..((HORIZON_END - HORIZON_START) \div 5) : y = HORIZON_START + 5 * k
    /\ y <= 2060 \/ y % 10 = 0

C8_YearGrid ==
    msg_pc = "returned" =>
        /\ \A r \in inv : OnGrid(r.year_vtg)
        /\ \A r \in fom : OnGrid(r.year_vtg) /\ OnGrid(r.year_act)

\* Both tables hold rows up to the end of the horizon, from projections that
\* have a row for 2065.
C8_Witness ==
    /\ msg_pc = "returned"
    /\ \E p \in df_projections : p.year = 2065
    /\ \E r \in inv : r.year_vtg = HORIZON_END
    /\ \E r \in inv : r.year_vtg = 2070
    /\ \E r \in fom : r.year_vtg = 2060 /\ r.year_act = HORIZON_END

(***************************************************************************)
(* create_iamc_outputs                                                     *)
(***************************************************************************)
\* a + b
Plus(a, b) ==
    IF a.nan \/ b.nan THEN NaN
    ELSE IF a.m = 0 THEN b
    ELSE IF b.m = 0 THEN a
    ELSE LET e == IF a.e <= b.e THEN a.e ELSE b.e
         IN  Number(a.m * (2 ^ (a.e - e)) + b.m * (2 ^ (b.e - e)), e)

RECURSIVE Sum(_)
Sum(values) ==
    IF values = {} THEN Number(0, 0)
    ELSE LET v == CHOOSE x \in values : TRUE
         IN  Plus(v, Sum(values \ {v}))

\* Variable=lambda x: "Capital Cost|Electricity|" + x.technology
variable_inv(technology) == "Capital Cost|Electricity|" \o technology

\* Variable=lambda x: "OM Cost|Electricity|" + x.technology + "|Vintage="
\*                    + x.year_vtg.astype(str)
variable_fix_mut_novintage(technology, year_vtg) ==
    "OM Cost|Electricity|" \o technology
variable_fix(technology, year_vtg) ==
    "OM Cost|Electricity|" \o technology \o "|Vintage=" \o ToString(year_vtg)

\* msg_inv.assign(Variable=...).rename(columns={...}).drop(columns=["technology"])
long_inv(rows) ==
    {[SSP_Scenario_Version |-> r.scenario_version,
      SSP_Scenario         |-> r.scenario,
      Region               |-> r.node_loc,
      Variable             |-> variable_inv(r.technology),
      Unit                 |-> r.unit,
      Year                 |-> r.year_vtg,
      value                |-> r.value] : r \in rows}

\* msg_fix.assign(Variable=...).rename(columns={...})
\*        .drop(columns=["technology", "year_vtg"])
long_fix(rows) ==
    {[SSP_Scenario_Version |-> r.scenario_version,
      SSP_Scenario         |-> r.scenario,
      Region               |-> r.node_loc,
      Variable             |-> variable_fix(r.technology, r.year_vtg),
      Unit                 |-> r.unit,
      Year                 |-> r.year_act,
      value                |-> r.value] : r \in rows}

\* The index of a long row: SSP_Scenario_Version, SSP_Scenario, Region,
\* Variable, Unit.
index_of(r) ==
    [SSP_Scenario_Version |-> r.SSP_Scenario_Version,
     SSP_Scenario         |-> r.SSP_Scenario,
     Region               |-> r.Region,
     Variable             |-> r.Variable,
     Unit                 |-> r.Unit]

\* The values pivot_table aggregates into one cell: those of the rows of the
\* index and the year that are not NaN.
cell_values(rows, year) ==
    {r.value : r \in {q \in rows : q.Year = year /\ ~q.value.nan}}

\* The mean of the values of a cell (the default aggfunc), as sum and count;
\* a cell with no value is empty.
cell(rows, year) ==
    LET values == cell_values(rows, year)
    IN  [empty |-> values = {},
         sum   |-> Sum(values),
         count |-> Cardinality(values)]

\* One wide row: the cells of the long rows of one index.
wide_row(index, rows, columns) ==
    [SSP_Scenario_Version |-> index.SSP_Scenario_Version,
     SSP_Scenario         |-> index.SSP_Scenario,
     Region               |-> index.Region,
     Variable             |-> index.Variable,
     Unit                 |-> index.Unit,
     cells                |-> [y \in columns |-> cell(rows, y)]]

\* .pivot_table(index=[...], columns="Year", values="value").reset_index():
\* one wide row for each index that has a value, one column for each year that
\* has a value.
pivot_table(long) ==
    LET valued  == {r \in long : ~r.value.nan}
        columns == {r.Year : r \in valued}
    IN  {wide_row(i, {q \in valued : index_of(q) = i}, columns) :
         i \in {index_of(r) : r \in valued}}

(***************************************************************************)
(* Inputs of create_iamc_outputs: tables in the format of                  *)
(* create_message_outputs, for a subset of the nodes, technologies and     *)
(* vintages, also with a NaN value or with two rows for one key.           *)
(***************************************************************************)
IamcNodes == {"R12_NAM", "R12_CHN"}
IamcTechnologies == {"coal_ppl", "wind_ppl"}
\* The last vintage of the input tables is 2020 + 5 * MaxVintages.
MaxVintages == 1
IamcVintages == {2020 + 5 * k : k \in 0..MaxVintages}
IamcActYears == {2020 + 5 * k : k \in 0..(MaxVintages + 1)}
IamcVariants == {"plain", "nan", "two rows"}

IamcKeys == IamcNodes \X IamcTechnologies \X IamcVintages

\* The keys of some combinations of node and technology and some vintages.
IamcTable(combinations, vintages) ==
    {k \in IamcKeys : <<k[1], k[2]>> \in combinations /\ k[3] \in vintages}

InvValue(k) ==
    Number((IF k[1] = "R12_NAM" THEN 100 ELSE 200)
           + (IF k[2] = "coal_ppl" THEN 10 ELSE 20)
           + (k[3] - 2020) \div 5, 0)

FixValue(k, year_act) ==
    Number((IF k[1] = "R12_NAM" THEN 30 ELSE 50)
           + (IF k[2] = "coal_ppl" THEN 1 ELSE 2),
           (year_act - k[3]) + (k[3] - 2020) \div 5)

MsgInvRow(k, value) ==
    [scenario_version |-> "Not applicable", scenario |-> "SSP2",
     node_loc |-> k[1], technology |-> k[2], year_vtg |-> k[3],
     value |-> value, unit |-> "USD/kWa"]

MsgFixRow(k, year_act, value) ==
    [scenario_version |-> "Not applicable", scenario |-> "SSP2",
     node_loc |-> k[1], technology |-> k[2], year_vtg |-> k[3],
     year_act |-> year_act, value |-> value, unit |-> "USD/kWa"]

\* The variant changes the rows of coal_ppl of the vintage 2020.
Varied(k) == k[2] = "coal_ppl" /\ k[3] = 2020

MsgInv(keys, variant) ==
    {MsgInvRow(k, IF variant = "nan" /\ Varied(k) THEN NaN ELSE InvValue(k)) :
        k \in keys}
    \cup {MsgInvRow(k, Plus(InvValue(k), Number(2, 0))) :
            k \in {j \in keys : variant = "two rows" /\ Varied(j)}}

MsgFix(keys, variant) ==
    {MsgFixRow(x[1], x[2],
               IF variant = "nan" /\ Varied(x[1]) THEN NaN
               ELSE FixValue(x[1], x[2])) :
        x \in {w \in keys \X IamcActYears : w[2] >= w[1][3]}}
    \cup {MsgFixRow(x[1], x[2], Plus(FixValue(x[1], x[2]), Number(2, 0))) :
            x \in {w \in keys \X IamcActYears :
                     w[2] >= w[1][3] /\ variant = "two rows" /\ Varied(w[1])}}

IamcInit ==
    /\ OtherModulesIdle
    /\ CostIdle
    /\ SplIdle
    /\ ProjIdle
    /\ MsgIdle
    /\ iamc_pc = "call"
    /\ \E combinations \in SUBSET (IamcNodes \X IamcTechnologies),
          vintages \in SUBSET IamcVintages,
          hole \in SUBSET IamcKeys,
          variant \in IamcVariants :
          /\ Cardinality(hole) <= 1
          /\ msg_inv = MsgInv(IamcTable(combinations, vintages) \ hole, variant)
          /\ msg_fix = MsgFix(IamcTable(combinations, vintages) \ hole, variant)
    /\ iamc_inv = {}
    /\ iamc_fix = {}

create_iamc_outputs ==
    /\ iamc_pc = "call"
    /\ iamc_pc' = "returned"
    /\ iamc_inv' = pivot_table(long_inv(msg_inv))
    /\ iamc_fix' = pivot_table(long_fix(msg_fix))
    /\ UNCHANGED <<msg_inv, msg_fix, notIamcVars>>

IamcNext == create_iamc_outputs

SpecIamc == IamcInit /\ [][IamcNext]_vars

(***************************************************************************)
(* Claims about create_iamc_outputs.                                       *)
(***************************************************************************)
\* The mean held by a cell is the number v.
MeanIs(c, v) == ~c.empty /\ ~v.nan /\ c.sum = Times(Number(c.count, 0), v)

\* The wide rows of a table for an input row and a variable.
WideRows(wide, r, variable) ==
    {w \in wide : /\ w.SSP_Scenario_Version = r.scenario_version
                  /\ w.SSP_Scenario = r.scenario
                  /\ w.Region = r.node_loc
                  /\ w.Unit = r.unit
                  /\ w.Variable = variable}

\* The input tables have one row per key.
OneRowPerKey ==
    /\ \A r1, r2 \in msg_inv :
          (/\ r1.scenario_version = r2.scenario_version
           /\ r1.scenario = r2.scenario
           /\ r1.node_loc = r2.node_loc
           /\ r1.technology = r2.technology
           /\ r1.year_vtg = r2.year_vtg) => r1 = r2
    /\ \A r1, r2 \in msg_fix :
          (/\ r1.scenario_version = r2.scenario_version
           /\ r1.scenario = r2.scenario
           /\ r1.node_loc = r2.node_loc
           /\ r1.technology = r2.technology
           /\ r1.year_vtg = r2.year_vtg
           /\ r1.year_act = r2.year_act) => r1 = r2

\* C9: each investment row is placed in the column year_vtg of the wide row
\* whose Variable is "Capital Cost|Electricity|<technology>", each fixed-cost
\* row in the column year_act of the wide row whose Variable is
\* "OM Cost|Electricity|<technology>|Vintage=<year_vtg>"; when the input has
\* one row per key, every input value is read back unchanged from the wide
\* table, and no other non-empty cell exists.
C9_IamcRoundTrip ==
    iamc_pc = "returned" =>
        /\ \A r \in {q \in msg_inv : ~q.value.nan} :
              \E w \in WideRows(iamc_inv, r,
                                "Capital Cost|Electricity|" \o r.technology) :
                  /\ r.year_vtg \in DOMAIN w.cells
                  /\ ~w.cells[r.year_vtg].empty
                  /\ OneRowPerKey => MeanIs(w.cells[r.year_vtg], r.value)
        /\ \A r \in {q \in msg_fix : ~q.value.nan} :
              \E w \in WideRows(iamc_fix, r,
                                "OM Cost|Electricity|" \o r.technology
                                \o "|Vintage=" \o ToString(r.year_vtg)) :
                  /\ r.year_act \in DOMAIN w.cells
                  /\ ~w.cells[r.year_act].empty
                  /\ OneRowPerKey => MeanIs(w.cells[r.year_act], r.value)
        /\ \A w \in iamc_inv : \A y \in DOMAIN w.cells :
              ~w.cells[y].empty =>
                  \E r \in msg_inv :
                      /\ w \in WideRows(iamc_inv, r,
                                "Capital Cost|Electricity|" \o r.technology)
                      /\ r.year_vtg = y
                      /\ ~r.value.nan
                      /\ OneRowPerKey => MeanIs(w.cells[y], r.value)
        /\ \A w \in iamc_fix : \A y \in DOMAIN w.cells :
              ~w.cells[y].empty =>
                  \E r \in msg_fix :
                      /\ w \in WideRows(iamc_fix, r,
                                "OM Cost|Electricity|" \o r.technology
                                \o "|Vintage=" \o ToString(r.year_vtg))
                      /\ r.year_act = y
                      /\ ~r.value.nan
                      /\ OneRowPerKey => MeanIs(w.cells[y], r.value)

\* The tables have one row per key, two vintages of one technology that are
\* active in the same year, and a wide row with an empty cell.
C9_Witness ==
    /\ iamc_pc = "returned"
    /\ OneRowPerKey
    /\ \E r1, r2 \in msg_fix :
          /\ r1.technology = r2.technology
          /\ r1.node_loc = r2.node_loc
          /\ r1.year_act = r2.year_act
          /\ r1.year_vtg # r2.year_vtg
          /\ r1.value # r2.value
    /\ \E w \in iamc_fix : \E y \in DOMAIN w.cells : w.cells[y].empty
    /\ \E w \in iamc_inv : \E y \in DOMAIN w.cells : ~w.cells[y].empty

(***************************************************************************)
(* project_capital_costs_using_learning_rates (tools/costs/splines.py)     *)
(***************************************************************************)
first_model_year == 2020
last_model_year == 2100
\* pre_last_year_rate = 0.01, as a percentage
pre_last_year_rate == 1

\* scens = ["SSP1", "SSP2", "SSP3"]
scens == {"SSP1", "SSP2", "SSP3"}

\* tech_manual: the manual cost reduction rates, in hundredths.
tech_manual(s) ==
    {[message_technology |-> "wind_ppf",    ssp_scenario |-> s,
      cost_reduction |-> [num |-> 65, den |-> 100]],
     [message_technology |-> "csp_sm1_ppl", ssp_scenario |-> s,
      cost_reduction |-> [num |-> 56, den |-> 100]],
     [message_technology |-> "csp_sm3_ppl", ssp_scenario |-> s,
      cost_reduction |-> [num |-> 64, den |-> 100]]}

\* df_cost_reduction: the column of the scenario, with the manual rows.
df_cost_reduction(learning_rates, s) ==
    {l \in learning_rates : l.ssp_scenario = s} \cup tech_manual(s)

\* np.where(x.first_year_original > first_model_year, x.first_year_original,
\*          first_model_year)
first_technology_year(first_year_original) ==
    IF first_year_original > first_model_year
    THEN first_year_original
    ELSE first_model_year

\* x["cost_region_2021"] - (x["cost_region_2021"] * x[s + "_cost_reduction"])
cost_region_2100(cost_region_2021, reduction) ==
    cost_region_2021 - (cost_region_2021 * reduction.num) \div reduction.den

\* b = (1 - pre_last_year_rate) * x.cost_region_2100
b(c2100) == ((100 - pre_last_year_rate) * c2100) \div 100

\* log2(n / d) for a ratio that is a power of two.
RECURSIVE Log2(_, _)
Log2(n, d) ==
    IF n = d THEN 0
    ELSE IF n < d THEN Log2(2 * n, d) - 1
    ELSE Log2(n, 2 * d) + 1

\* r = (1 / (last_model_year - first_model_year))
\*     * np.log((x.cost_region_2100 - x.b) / (x.cost_region_2021 - x.b)),
\* held as the base-2 logarithm of the ratio and the span of years.
r(c2021, c2100) ==
    [log2 |-> Log2(c2100 - b(c2100), c2021 - b(c2100)),
     span |-> last_model_year - first_model_year]

\* np.where(y <= first_model_year, x.cost_region_2021,
\*   (x.cost_region_2021 - x.b) * np.exp(x.r * (y - x.first_technology_year)) + x.b)
ycur(y, c2021, c2100, first_year) ==
    IF y <= first_model_year THEN c2021
    ELSE LET rate == r(c2021, c2100)
             k == (rate.log2 * (y - first_year)) \div rate.span
         IN  IF k >= 0
             THEN (c2021 - b(c2100)) * (2 ^ k) + b(c2100)
             ELSE (c2021 - b(c2100)) \div (2 ^ (0 - k)) + b(c2100)

\* seq_years = list(range(first_model_year, last_model_year + 10, 10))
spl_seq_years ==
    {y \in first_model_year..(last_model_year + 9) : (y - first_model_year) % 10 = 0}

\* The frame of one scenario, melted: one row per technology with a first
\* year, region and year, of the capital costs only.
scenario_frame(region_diff, first_year, learning_rates, s) ==
    {[ssp_scenario       |-> s,
      cost_type          |-> x[1].cost_type,
      message_technology |-> x[1].message_technology,
      r11_region         |-> x[1].r11_region,
      cost_region_2021   |-> x[1].cost_region_2021,
      cost_region_2100   |-> cost_region_2100(x[1].cost_region_2021,
                                              x[3].cost_reduction),
      year               |-> x[4],
      cost_region_projected_init |->
          ycur(x[4], x[1].cost_region_2021,
               cost_region_2100(x[1].cost_region_2021, x[3].cost_reduction),
               first_technology_year(x[2].first_year_original))] :
     x \in {w \in region_diff \X first_year
                  \X df_cost_reduction(learning_rates, s) \X spl_seq_years :
              /\ w[1].message_technology = w[2].message_technology
              /\ w[1].message_technology = w[3].message_technology
              /\ w[1].cost_type = "capital_costs"}}

\* df_cost = pd.concat(list_dfs_cost)
df_cost_rows(region_diff, first_year, learning_rates) ==
    UNION {scenario_frame(region_diff, first_year, learning_rates, s) : s \in scens}

\* df_adj: the rows of NAM merged onto all rows; after 2020 every region gets
\* the projection of NAM.
df_adj_rows(cost) ==
    {[ssp_scenario       |-> x[2].ssp_scenario,
      cost_type          |-> x[2].cost_type,
      message_technology |-> x[2].message_technology,
      r11_region         |-> x[2].r11_region,
      year               |-> x[2].year,
      cost_region_projected |->
          IF x[2].year <= 2020
          THEN x[2].cost_region_projected_init
          ELSE x[1].cost_region_projected_init] :
     x \in {w \in {n \in cost : n.r11_region = "NAM"} \X cost :
              /\ w[1].ssp_scenario = w[2].ssp_scenario
              /\ w[1].cost_type = w[2].cost_type
              /\ w[1].message_technology = w[2].message_technology
              /\ w[1].year = w[2].year}}

(***************************************************************************)
(* Inputs of project_capital_costs_using_learning_rates.  The costs and    *)
(* the reductions are those for which the logarithm and the exponential    *)
(* are exact: a reduction of 0, or of 51/71, which makes                   *)
(* (cost_region_2100 - b) / (cost_region_2021 - b) = 2^-8.                 *)
(***************************************************************************)
SplTechnologies == {"coal_ppl", "solar_pv_ppl"}
SplRegions == {"NAM", "CPA"}
\* The costs of 2021 are the multiples of 35500 up to MaxCost times it.
MaxCost == 2
SplCosts == {35500 * k : k \in 1..MaxCost}
SplFirstYears == {2000, 2020, 2030, 2050}
SplReductions == {[num |-> 0, den |-> 1], [num |-> 51, den |-> 71]}

SplRegionDiff(cost_nam, cost_cpa) ==
    {[cost_type          |-> ct,
      message_technology |-> t,
      r11_region         |-> reg,
      cost_region_2021   |-> (IF reg = "NAM" THEN cost_nam ELSE cost_cpa)
                             \div (IF ct = "capital_costs" THEN 1 ELSE 5)] :
     ct \in {"capital_costs", "annual_om_costs"}, t \in SplTechnologies,
     reg \in SplRegions}

SplFirstYear(coal, solar) ==
    {[message_technology |-> "coal_ppl", first_year_original |-> coal],
     [message_technology |-> "solar_pv_ppl", first_year_original |-> solar]}

\* SSP1 has the reduction `one`, the other scenarios `other`.
SplLearningRates(one, other) ==
    {[message_technology |-> t,
      ssp_scenario       |-> s,
      cost_reduction     |-> IF s = "SSP1" THEN one ELSE other] :
     t \in SplTechnologies, s \in scens}

SplInit ==
    /\ OtherModulesIdle
    /\ CostIdle
    /\ ProjIdle
    /\ MsgIdle
    /\ IamcIdle
    /\ spl_pc = "call"
    /\ \E cost_nam \in SplCosts, cost_cpa \in SplCosts :
          df_region_diff_r11 = SplRegionDiff(cost_nam, cost_cpa)
    /\ \E coal \in SplFirstYears, solar \in SplFirstYears :
          df_technology_first_year = SplFirstYear(coal, solar)
    /\ \E one \in SplReductions, other \in SplReductions :
          df_learning_rates = SplLearningRates(one, other)
    /\ df_cost = {}
    /\ df_adj = {}

project_capital_costs_using_learning_rates ==
    /\ spl_pc = "call"
    /\ spl_pc' = "returned"
    /\ df_cost' = df_cost_rows(df_region_diff_r11, df_technology_first_year,
                               df_learning_rates)
    /\ df_adj' = df_adj_rows(df_cost')
    /\ UNCHANGED <<df_learning_rates, df_region_diff_r11,
                   df_technology_first_year, notSplVars>>

SplNext == project_capital_costs_using_learning_rates

SpecSplines == SplInit /\ [][SplNext]_vars

(***************************************************************************)
(* Claims about project_capital_costs_using_learning_rates.                *)
(***************************************************************************)
Between(x, lo, hi) == (lo <= x /\ x <= hi) \/ (hi <= x /\ x <= lo)

\* C10: for every scenario, technology, region and year in 2020..2100
\* returned, cost_region_projected lies between the region's cost in 2021
\* (cost_region_2021) and its cost in 2100 (cost_region_2100), also for the
\* technologies whose first technology year is after 2020.
C10_ProjectedBetween ==
    spl_pc = "returned" =>
        \A a \in df_adj :
            \A c \in {d \in df_cost :
                        /\ d.ssp_scenario = a.ssp_scenario
                        /\ d.cost_type = a.cost_type
                        /\ d.message_technology = a.message_technology
                        /\ d.r11_region = a.r11_region
                        /\ d.year = a.year} :
                Between(a.cost_region_projected,
                        c.cost_region_2021, c.cost_region_2100)

\* The same, of the reference region alone and of the technologies whose
\* first year is not after 2020.
C10_BetweenForEarlyTechnologies ==
    spl_pc = "returned" =>
        \A a \in {x \in df_adj : x.r11_region = "NAM"} :
            \A c \in {d \in df_cost :
                        /\ d.ssp_scenario = a.ssp_scenario
                        /\ d.cost_type = a.cost_type
                        /\ d.message_technology = a.message_technology
                        /\ d.r11_region = a.r11_region
                        /\ d.year = a.year} :
                (\E f \in df_technology_first_year :
                    /\ f.message_technology = a.message_technology
                    /\ f.first_year_original <= 2020) =>
                Between(a.cost_region_projected,
                        c.cost_region_2021, c.cost_region_2100)

(***************************************************************************)
(* create_cost_projections                                                 *)
(***************************************************************************)
\* Config.check (tools/costs/config.py): the settings are among the options
\* the docstring of create_cost_projections lists.
config_check(cfg) ==
    /\ cfg.method \in {"learning", "gdp", "convergence"}
    /\ cfg.format \in {"message", "iamc"}
    /\ cfg.scenario \in {"all", "LED", "SSP1", "SSP2", "SSP3", "SSP4", "SSP5"}
    /\ cfg.scenario_version \in {"updated", "original"}

\* if config.method == "learning": ... elif "gdp": ... elif "convergence": ...
projection_routine_mut_swapped(method) ==
    CASE method = "learning"    -> "create_projections_gdp"
      [] method = "gdp"         -> "create_projections_learning"
      [] method = "convergence" -> "create_projections_converge"
      [] OTHER                  -> None
projection_routine(method) ==
    CASE method = "learning"    -> "create_projections_learning"
      [] method = "gdp"         -> "create_projections_gdp"
      [] method = "convergence" -> "create_projections_converge"
      [] OTHER                  -> None

\* The tables the routines read for the configured node and module.
CostRegionDiff == RegionDiff(2)
CostLearning == Learning(1)
CostAdjCostRatios == AdjCostRatios(2, 1)

\* df_costs of the routine called.
run_projection(routine, cfg, smooth) ==
    CASE routine = "create_projections_learning" ->
           learning_costs(CostRegionDiff, query_scenario(CostLearning, cfg.scenario))
      [] routine = "create_projections_gdp" ->
           gdp_costs(CostRegionDiff, query_scenario(CostLearning, cfg.scenario),
                     query_adj(CostAdjCostRatios, cfg.scenario, cfg.scenario_version))
      [] routine = "create_projections_converge" ->
           LET pre == pre_costs(CostRegionDiff,
                                query_scenario(CostLearning, cfg.scenario),
                                cfg.convergence_year)
           IN  converge_costs(pre, apply_splines_to_convergence(pre, smooth))
      [] OTHER -> {}

Configs ==
    [method           : {"learning", "gdp", "convergence", "splines"},
     format           : {"message", "iamc", "csv"},
     scenario         : {"all", "SSP2", "ssp2"},
     scenario_version : {"updated", "original", "all"},
     convergence_year : {2050},
     fom_rate         : {1}]

CostInit ==
    /\ OtherModulesIdle
    /\ ProjIdle
    /\ MsgIdle
    /\ IamcIdle
    /\ SplIdle
    /\ cost_pc = "start"
    /\ config \in Configs
    /\ calls = <<>>
    /\ cost_df_costs = {}
    /\ cost_message = [inv |-> {}, fom |-> {}]
    /\ cost_result = [inv_cost |-> {}, fix_cost |-> {}]

\* config.check(): raises ValueError for a setting that is no option.
cost_check ==
    /\ cost_pc = "start"
    /\ calls' = Append(calls, "config.check")
    /\ cost_pc' = IF config_check(config) THEN "checked" ELSE "raised"
    /\ UNCHANGED <<config, cost_df_costs, cost_message, cost_result, notCostVars>>

\* The if/elif chain on config.method: one routine is called.
cost_project ==
    /\ cost_pc = "checked"
    /\ projection_routine(config.method) # None
    /\ calls' = Append(calls, projection_routine(config.method))
    /\ IF print_raises(config.scenario)
       THEN /\ cost_pc' = "raised"
            /\ cost_df_costs' = cost_df_costs
       ELSE /\ cost_pc' = "projected"
            /\ \E smooth \in {0, 1} :
                 cost_df_costs' = run_projection(projection_routine(config.method),
                                                 config, smooth)
    /\ UNCHANGED <<config, cost_message, cost_result, notCostVars>>

\* create_message_outputs(df_costs, fom_rate=config.fom_rate); with the format
\* "message" its tables are returned.
cost_message_outputs ==
    /\ cost_pc = "projected"
    /\ config.format \in {"message", "iamc"}
    /\ calls' = Append(calls, "create_message_outputs")
    /\ LET merged == df_merge_rows(cost_df_costs)
       IN  cost_message' = [inv |-> inv_table(merged),
                            fom |-> fom_table(merged, config.fom_rate)]
    /\ IF config.format = "message"
       THEN /\ cost_pc' = "returned"
            /\ cost_result' = [inv_cost |-> cost_message'.inv,
                               fix_cost |-> cost_message'.fom]
       ELSE /\ cost_pc' = "message done"
            /\ cost_result' = cost_result
    /\ UNCHANGED <<config, cost_df_costs, notCostVars>>

\* create_iamc_outputs(df_inv, df_fom), whose tables are returned.
cost_iamc_outputs ==
    /\ cost_pc = "message done"
    /\ config.format = "iamc"
    /\ calls' = Append(calls, "create_iamc_outputs")
    /\ cost_result' = [inv_cost |-> pivot_table(long_inv(cost_message.inv)),
                       fix_cost |-> pivot_table(long_fix(cost_message.fom))]
    /\ cost_pc' = "returned"
    /\ UNCHANGED <<config, cost_df_costs, cost_message, notCostVars>>

CostNext ==
    \/ cost_check
    \/ cost_project
    \/ cost_message_outputs
    \/ cost_iamc_outputs

Spec == CostInit /\ [][CostNext]_vars

(***************************************************************************)
(* Claims about create_cost_projections.                                   *)
(***************************************************************************)
ProjectionRoutines ==
    {"create_projections_learning", "create_projections_gdp",
     "create_projections_converge"}

\* C1: create_cost_projections calls config.check() before any projection
\* step, then runs exactly one projection routine, chosen by config.method
\* (learning: create_projections_learning, gdp: create_projections_gdp,
\* convergence: create_projections_converge); the result always goes through
\* create_message_outputs, and then through create_iamc_outputs only when
\* config.format is "iamc".
C1_CallOrder ==
    /\ calls # <<>> => calls[1] = "config.check"
    /\ Len(calls) >= 2 =>
          /\ config.method = "learning" => calls[2] = "create_projections_learning"
          /\ config.method = "gdp" => calls[2] = "create_projections_gdp"
          /\ config.method = "convergence" => calls[2] = "create_projections_converge"
          /\ calls[2] \in ProjectionRoutines
    /\ \A i \in 1..Len(calls) : calls[i] \in ProjectionRoutines => i = 2
    /\ cost_pc = "returned" =>
          /\ Len(calls) >= 3
          /\ calls[3] = "create_message_outputs"
          /\ config.format = "iamc" =>
                 /\ Len(calls) = 4
                 /\ calls[4] = "create_iamc_outputs"
                 /\ \A w \in cost_result.inv_cost \cup cost_result.fix_cost :
                        "Variable" \in DOMAIN w
          /\ config.format # "iamc" =>
                 /\ Len(calls) = 3
                 /\ cost_result = [inv_cost |-> cost_message.inv,
                                   fix_cost |-> cost_message.fom]

\* A call with the convergence method and the format iamc has returned
\* tables that are not empty.
C1_Witness ==
    /\ cost_pc = "returned"
    /\ config.method = "convergence"
    /\ config.format = "iamc"
    /\ Len(calls) = 4
    /\ cost_result.inv_cost # {}
    /\ cost_result.fix_cost # {}

(***************************************************************************)
(* splines.py: apply_polynominal_regression_NAM_costs.                     *)
(*                                                                         *)
(* The input frame is a set of rows; the list data_reg of one-row frames   *)
(* and the frame concatenated from it are sequences of rows, so that a     *)
(* combination fitted twice would show as two rows.                        *)
(***************************************************************************)
\* df_tech_costs.ssp_scenario.unique(), .message_technology.unique(),
\* .r11_region.unique()
un_ssp(df) == {q.ssp_scenario : q \in df}
un_tech(df) == {q.message_technology : q \in df}
un_reg(df) == {q.r11_region : q \in df}

\* df_tech_costs.loc[(ssp_scenario == i) & (message_technology == j)
\*                   & (r11_region == k)]
tech_mut_noregion(df, i, j, k) ==
    {q \in df : q.ssp_scenario = i /\ q.message_technology = j}
tech(df, i, j, k) ==
    {q \in df : /\ q.ssp_scenario = i
                /\ q.message_technology = j
                /\ q.r11_region = k}

\* PolynomialFeatures(degree=3, include_bias=False) and LinearRegression().fit:
\* the least-squares fit of y on x, x^2, x^3 with an intercept, of minimum norm
\* where the fit is not unique.  Computed here for the two shapes of data the
\* inputs hold: equal costs in every year (all coefficients 0, the intercept
\* is the cost), and costs on a straight line over four or more years (the
\* coefficient of x is the slope, the others are 0).
poly_reg_model(rows) ==
    LET y == {q.cost_region_projected : q \in rows}
    IN  IF Cardinality(y) = 1
        THEN [coef |-> <<0, 0, 0>>, intercept |-> CHOOSE c \in y : TRUE]
        ELSE LET p == CHOOSE w \in rows \X rows : w[1].year < w[2].year
                 slope == (p[2].cost_region_projected
                             - p[1].cost_region_projected)
                          \div (p[2].year - p[1].year)
             IN  [coef |-> <<slope, 0, 0>>,
                  intercept |-> p[1].cost_region_projected - slope * p[1].year]

\* data = [[i, j, k, coef_[0], coef_[1], coef_[2], intercept_]]
regression_row(i, j, k, model) ==
    [ssp_scenario |-> i, message_technology |-> j, r11_region |-> k,
     beta_1 |-> model.coef[1], beta_2 |-> model.coef[2],
     beta_3 |-> model.coef[3], intercept |-> model.intercept]

\* for i, j, k in product(un_ssp, un_tech, un_reg): ... data_reg.append(df)
\* (a combination without rows is skipped by `if tech.size == 0: continue`).
RECURSIVE data_reg(_, _)
data_reg(df, combinations) ==
    IF combinations = {} THEN <<>>
    ELSE LET c == CHOOSE w \in combinations : TRUE
             rows == tech(df, c[1], c[2], c[3])
             rest == data_reg(df, combinations \ {c})
         IN  IF rows = {} THEN rest
             ELSE <<regression_row(c[1], c[2], c[3], poly_reg_model(rows))>>
                    \o rest

\* product(un_ssp, un_tech, un_reg)
product(df) == un_ssp(df) \X un_tech(df) \X un_reg(df)

(***************************************************************************)
(* The input frames.                                                       *)
(***************************************************************************)
\* At most this many combinations of scenario, technology and region have
\* rows in the input.
MaxTechCombinations == 3

RegScenarios == {"SSP1", "SSP2"}
RegTechnologies == {"coal_ppl", "gas_ppl"}
RegRegions == {"NAM", "CPA"}
RegCombinations == RegScenarios \X RegTechnologies \X RegRegions
RegYears == {2020, 2030, 2040, 2050}

\* The rows of one combination: the same cost in every year, or a cost that
\* falls by 10 each year.
RegRows(c, shape) ==
    {[ssp_scenario |-> c[1], message_technology |-> c[2], r11_region |-> c[3],
      year |-> x,
      cost_region_projected |->
          IF shape = "constant" THEN 1500 ELSE 1500 - 10 * (x - 2020)]
       : x \in RegYears}

\* The frame holding the combinations of `present`, those of `falling` with
\* falling costs.
RegFrame(present, falling) ==
    UNION {RegRows(c, IF c \in falling THEN "line" ELSE "constant")
             : c \in present}

RegInit ==
    /\ CostToolsIdle
    /\ ChnIdle
    /\ NldvIdle
    /\ DemIdle
    /\ reg_pc = "call"
    /\ \E present \in SUBSET RegCombinations :
         /\ Cardinality(present) <= MaxTechCombinations
         /\ \E falling \in SUBSET present :
              df_tech_costs = RegFrame(present, falling)
    /\ df_regression = <<>>
    /\ reg_raised = ""

\* pd.concat(data_reg) raises ValueError for an empty list.
apply_polynominal_regression_NAM_costs ==
    /\ reg_pc = "call"
    /\ LET frames == data_reg(df_tech_costs, product(df_tech_costs))
       IN  IF frames = <<>>
           THEN /\ reg_pc' = "raised"
                /\ reg_raised' = "ValueError"
                /\ df_regression' = df_regression
           ELSE /\ reg_pc' = "returned"
                /\ reg_raised' = reg_raised
                /\ df_regression' = frames
    /\ UNCHANGED <<df_tech_costs, notRegVars>>

RegNext == apply_polynominal_regression_NAM_costs

SpecRegression == RegInit /\ [][RegNext]_vars

\* The rows of the returned frame for one combination.
RegressionRows(c) ==
    {n \in DOMAIN df_regression :
        /\ df_regression[n].ssp_scenario = c[1]
        /\ df_regression[n].message_technology = c[2]
        /\ df_regression[n].r11_region = c[3]}

\* The input rows of one combination.
InputRows(c) ==
    {q \in df_tech_costs : /\ q.ssp_scenario = c[1]
                           /\ q.message_technology = c[2]
                           /\ q.r11_region = c[3]}

\* C11: the returned frame holds exactly one row for each combination of
\* scenario, technology and region that has input rows, with the coefficients
\* and intercept of the fit of that combination's costs against its years, and
\* no row for a combination of existing values that has no input rows.
C11_OneRowPerCombination ==
    reg_pc = "returned" =>
        /\ \A c \in RegCombinations :
             IF InputRows(c) # {}
             THEN /\ Cardinality(RegressionRows(c)) = 1
                  /\ \A n \in RegressionRows(c) :
                       LET fit == poly_reg_model(InputRows(c))
                       IN  /\ df_regression[n].beta_1 = fit.coef[1]
                           /\ df_regression[n].beta_2 = fit.coef[2]
                           /\ df_regression[n].beta_3 = fit.coef[3]
                           /\ df_regression[n].intercept = fit.intercept
             ELSE RegressionRows(c) = {}
        /\ \A n \in DOMAIN df_regression :
             <<df_regression[n].ssp_scenario,
               df_regression[n].message_technology,
               df_regression[n].r11_region>> \in RegCombinations

\* A frame was returned for an input in which some combination of existing
\* scenario, technology and region values has no rows, and in which some
\* combination's costs fall over the years.
C11_Witness ==
    /\ reg_pc = "returned"
    /\ \E c \in product(df_tech_costs) : InputRows(c) = {}
    /\ \E n \in DOMAIN df_regression : df_regression[n].beta_1 = -10
    /\ \E n \in DOMAIN df_regression : df_regression[n].beta_1 = 0

(***************************************************************************)
(* model/transport/data/CHN_IND.py: get_chn_ind_data.                      *)
(*                                                                         *)
(* FILES is a global of the module, so it lives as long as the process and *)
(* is shared by all the calls of get_chn_ind_data.  A frame is a set of    *)
(* rows with the columns ISO_Code, Variable, Mode, Units, Year and Value;  *)
(* a value is a decimal number m * 10^e.                                   *)
(***************************************************************************)
\* The decimal number m * 10^e, with m not a multiple of 10 (or 0).
RECURSIVE Decimal(_, _)
Decimal(m, e) ==
    IF m = 0 THEN [m |-> 0, e |-> 0]
    ELSE IF m % 10 = 0 THEN Decimal(m \div 10, e + 1)
    ELSE [m |-> m, e |-> e]

\* factor * values
DecTimes(x, y) == Decimal(x.m * y.m, x.e + y.e)

\* UNITS: factor, unit of the input and unit of the output of each variable.
UNITS ==
    [v \in {"Population", "Vehicle Stock", "Passenger-Kilometers",
            "Freight Ton-Kilometers"} |->
        CASE v = "Population" -> <<Decimal(1, -6), None, "dimensionless">>
          [] v = "Vehicle Stock" ->
                 <<Decimal(1, 4), "vehicle", "thousand vehicle">>
          [] v = "Passenger-Kilometers" ->
                 <<Decimal(100, 0), "megapkm", "gigapkm">>
          [] v = "Freight Ton-Kilometers" ->
                 <<Decimal(100, 0), "megatkm", "gigatkm">>]

POP_FILE == "CHN_IND_population.csv"

\* RAIL_SUB_CAT (the sub-category that the input files of the model hold).
RAIL_SUB_CAT ==
    {"Passenger-Kilometers of National Railways(100 million passenger-km)"}

\* split_units(df["Indicators"], pat="("): the name before the parenthesis
\* and the units inside it.
split_units(s) ==
    CASE s = "Passenger-Kilometers(100 million passenger-km)" ->
           [Variable |-> "Passenger-Kilometers",
            Units |-> "100 million passenger-km"]
      [] s = "Passenger-Kilometers of Railways(100 million passenger-km)" ->
           [Variable |-> "Passenger-Kilometers of Railways",
            Units |-> "100 million passenger-km"]
      [] s = "Passenger-Kilometers of National Railways(100 million passenger-km)" ->
           [Variable |-> "Passenger-Kilometers of National Railways",
            Units |-> "100 million passenger-km"]
      [] s = "Possession of Civil Vehicles(10000 units)" ->
           [Variable |-> "Possession of Civil Vehicles",
            Units |-> "10000 units"]
      [] s = "Possession of Private Vehicles(10000 units)" ->
           [Variable |-> "Possession of Private Vehicles",
            Units |-> "10000 units"]
      [] s = "Freight Ton-Kilometers of Highways(100 million ton-km)" ->
           [Variable |-> "Freight Ton-Kilometers of Highways",
            Units |-> "100 million ton-km"]

\* df["Variable"].str.replace("Possession", "Vehicle Stock")
replace_possession(s) ==
    CASE s = "Possession of Civil Vehicles" -> "Vehicle Stock of Civil Vehicles"
      [] s = "Possession of Private Vehicles" ->
           "Vehicle Stock of Private Vehicles"
      [] OTHER -> s

\* split_variable: s.str.rsplit(pat=" of ", n=1), and FILL_VALUES for the
\* variables without a mode.
split_variable(s) ==
    CASE s = "Passenger-Kilometers" ->
           [Var |-> s, Mode |-> "Total passenger transport"]
      [] s = "Freight Ton-Kilometers" ->
           [Var |-> s, Mode |-> "Total freight transport"]
      [] s = "Passenger-Kilometers of Railways" ->
           [Var |-> "Passenger-Kilometers", Mode |-> "Railways"]
      [] s = "Vehicle Stock of Civil Vehicles" ->
           [Var |-> "Vehicle Stock", Mode |-> "Civil Vehicles"]
      [] s = "Vehicle Stock of Private Vehicles" ->
           [Var |-> "Vehicle Stock", Mode |-> "Private Vehicles"]
      [] s = "Freight Ton-Kilometers of Highways" ->
           [Var |-> "Freight Ton-Kilometers", Mode |-> "Highways"]

\* del FILES["Vehicle stock private"]
del(files, key) == [k \in DOMAIN files \ {key} |-> files[k]]

\* for file, skip_footer in FILES.values(): pd.read_csv(...); pd.concat
read_files(files, csv) == UNION {csv[files[k][1]] : k \in DOMAIN files}

\* The frame of the data of China: the rail sub-categories dropped, the
\* indicators split, the year columns melted into rows, 2019 dropped.
chn_rows(files, csv) ==
    LET kept == {q \in read_files(files, csv) : q.Indicators \notin RAIL_SUB_CAT}
        melted == {[Variable |->
                        replace_possession(split_units(w[1].Indicators).Variable),
                    Units |-> split_units(w[1].Indicators).Units,
                    Year |-> w[2],
                    Value |-> w[1].Values[w[2]]]
                     : w \in {x \in kept \X {2018, 2019} :
                                x[2] \in DOMAIN x[1].Values}}
    IN  {[ISO_Code |-> "CHN",
          Variable |-> split_variable(q.Variable).Var,
          Mode |-> split_variable(q.Variable).Mode,
          Units |-> q.Units, Year |-> q.Year, Value |-> q.Value]
           : q \in {x \in melted : x.Year # 2019}}

\* get_chn_ind_pop: the columns LOCATION, Time and Value of POP_FILE, with
\* the Variable "Population".
get_chn_ind_pop(csv) ==
    {[ISO_Code |-> q.LOCATION, Variable |-> "Population", Mode |-> "NaN",
      Units |-> "NaN", Year |-> q.Time, Value |-> q.Value]
       : q \in csv[POP_FILE]}

\* get_ind_item_data, and the columns get_chn_ind_data then overwrites: the
\* rows of India for 2000-2018, as passenger-kilometers of railways.
df_item(csv) ==
    {[ISO_Code |-> q.REF_AREA, Variable |-> "Passenger-Kilometers",
      Mode |-> "Railways", Units |-> q.UNIT, Year |-> q.TIME_PERIOD,
      Value |-> q.VALUE]
       : q \in {x \in csv["T000.csv"] :
                  x.REF_AREA = "IND" /\ x.TIME_PERIOD \in 2000..2018}}

\* registry.Quantity(magnitude, unit_in).to(unit_out)
quantity_to(magnitude, unit_in, unit_out) ==
    [magnitude |->
        CASE unit_in = None /\ unit_out = "dimensionless" -> magnitude
          [] unit_in = "vehicle" /\ unit_out = "thousand vehicle" ->
                 DecTimes(magnitude, Decimal(1, -3))
          [] unit_in = "megapkm" /\ unit_out = "gigapkm" ->
                 DecTimes(magnitude, Decimal(1, -3))
          [] unit_in = "megatkm" /\ unit_out = "gigatkm" ->
                 DecTimes(magnitude, Decimal(1, -3)),
     units |-> unit_out]

\* df[df["Variable"] == var]["Value"] = ...: df[mask] builds a new frame, and
\* the column is set in that frame, which nothing refers to afterwards; df
\* keeps its rows.
setitem_on_selection(df, selection, assigned) == df

\* for var, info in UNITS.items(): ... (lines 218-233)
RECURSIVE convert_units(_, _)
convert_units(df, variables) ==
    IF variables = {} THEN df
    ELSE LET var == CHOOSE v \in variables : TRUE
             info == UNITS[var]
             unit_out == IF info[3] = None THEN info[2] ELSE info[3]
             selection == {q \in df : q.Variable = var}
             result == [q \in selection |->
                          quantity_to(DecTimes(info[1], q.Value),
                                      info[2], unit_out)]
             assigned == {[q EXCEPT !.Value = result[q].magnitude,
                                    !.Units = result[q].units]
                            : q \in selection}
         IN  convert_units(setitem_on_selection(df, selection, assigned),
                           variables \ {var})

(***************************************************************************)
(* The contents of the files.                                              *)
(***************************************************************************)
\* How many times get_chn_ind_data is called in the process.
MaxChnCalls == 2

ChnLevels == {1, 2}

\* The indicators that each file of China may hold.
ChnIndicators ==
    [f \in {"CHN_activity-passenger.csv", "CHN_stock-civil.csv",
            "CHN_stock-private.csv", "CHN_activity-freight.csv"} |->
        CASE f = "CHN_activity-passenger.csv" ->
               {"Passenger-Kilometers(100 million passenger-km)",
                "Passenger-Kilometers of Railways(100 million passenger-km)",
                "Passenger-Kilometers of National Railways(100 million passenger-km)"}
          [] f = "CHN_stock-civil.csv" ->
               {"Possession of Civil Vehicles(10000 units)"}
          [] f = "CHN_stock-private.csv" ->
               {"Possession of Private Vehicles(10000 units)"}
          [] f = "CHN_activity-freight.csv" ->
               {"Freight Ton-Kilometers of Highways(100 million ton-km)"}]

AllChnIndicators == UNION {ChnIndicators[f] : f \in DOMAIN ChnIndicators}

\* The files of the data directory: those of China hold the indicators of
\* `present`, with values that grow with `level`.
ChnCsv(present, level) ==
    [f \in DOMAIN ChnIndicators \cup {POP_FILE, "T000.csv"} |->
        IF f = POP_FILE
        THEN {[LOCATION |-> "CHN", Time |-> 2018,
               Value |-> Decimal(1400000 * level, 3)],
              [LOCATION |-> "IND", Time |-> 2018,
               Value |-> Decimal(1350000 * level, 3)]}
        ELSE IF f = "T000.csv"
        THEN {[REF_AREA |-> "IND", UNIT |-> "10^9 passenger-km / yr",
               TIME_PERIOD |-> 2018, VALUE |-> Decimal(1150 * level, 0)],
              [REF_AREA |-> "IND", UNIT |-> "10^9 passenger-km / yr",
               TIME_PERIOD |-> 2019, VALUE |-> Decimal(1160 * level, 0)],
              [REF_AREA |-> "USA", UNIT |-> "10^9 passenger-km / yr",
               TIME_PERIOD |-> 2018, VALUE |-> Decimal(32 * level, 0)]}
        ELSE {[Indicators |-> s,
               Values |-> [y \in {2018, 2019} |->
                             Decimal((y - 2000) * 7 * level, 0)]]
                : s \in ChnIndicators[f] \cap present}]

ChnInit ==
    /\ CostToolsIdle
    /\ RegIdle
    /\ NldvIdle
    /\ DemIdle
    /\ chn_pc = "idle"
    /\ FILES = FILES_imported
    /\ private_vehicles = FALSE
    /\ \E present \in SUBSET AllChnIndicators, level \in ChnLevels :
         chn_csv = ChnCsv(present, level)
    /\ chn_parsed = {}
    /\ chn_df = {}
    /\ chn_raised = ""
    /\ chn_calls = 0

\* One call of get_chn_ind_data(private_vehicles=pv).
get_chn_ind_data(pv) ==
    /\ chn_calls < MaxChnCalls
    /\ chn_calls' = chn_calls + 1
    /\ private_vehicles' = pv
    /\ IF ~pv /\ "Vehicle stock private" \notin DOMAIN FILES
       THEN \* del FILES["Vehicle stock private"] raises KeyError
            /\ chn_pc' = "raised"
            /\ chn_raised' = "KeyError"
            /\ chn_parsed' = {}
            /\ chn_df' = {}
            /\ FILES' = FILES
       ELSE LET files == IF ~pv THEN del(FILES, "Vehicle stock private")
                         ELSE FILES
                df == chn_rows(files, chn_csv) \cup get_chn_ind_pop(chn_csv)
                        \cup df_item(chn_csv)
            IN  /\ FILES' = files
                /\ chn_parsed' = {files[k][1] : k \in DOMAIN files}
                /\ chn_df' = convert_units(df, DOMAIN UNITS)
                /\ chn_pc' = "returned"
                /\ chn_raised' = ""
    /\ UNCHANGED <<chn_csv, notChnVars>>

ChnNext == \E pv \in BOOLEAN : get_chn_ind_data(pv)

SpecChnInd == ChnInit /\ [][ChnNext]_vars

\* The files of FILES that a call with the argument pv is to parse.
FilesFor(pv) ==
    {FILES_imported[k][1] :
        k \in IF pv THEN DOMAIN FILES_imported
              ELSE DOMAIN FILES_imported \ {"Vehicle stock private"}}

\* C12: the files a call of get_chn_ind_data parses depend only on its
\* argument: all four files of FILES with private_vehicles=True, the three
\* other than CHN_stock-private.csv with private_vehicles=False, whatever
\* calls came before.
C12_FilesDependOnArgument ==
    chn_pc = "returned" => chn_parsed = FilesFor(private_vehicles)

\* The frame that get_chn_ind_data builds from all the files of `files`,
\* before the conversion of the units.
FrameOf(files) ==
    chn_rows(files, chn_csv) \cup get_chn_ind_pop(chn_csv) \cup df_item(chn_csv)

\* A row after the conversion of UNITS.
Converted(q) ==
    IF q.Variable \in DOMAIN UNITS
    THEN LET info == UNITS[q.Variable]
             out == quantity_to(DecTimes(info[1], q.Value), info[2], info[3])
         IN  [q EXCEPT !.Value = out.magnitude, !.Units = out.units]
    ELSE q

\* C13: in the returned frame every row of a variable of UNITS holds the
\* value multiplied by the factor and converted to the output unit, and the
\* output unit in Units.
C13_UnitsConverted ==
    chn_pc = "returned" =>
        chn_df = {Converted(q) : q \in FrameOf(FILES)}

(***************************************************************************)
(* model/transport/non_ldv.py: prepare_computer.                           *)
(*                                                                         *)
(* The graph of the Computer c is a function from the keys added to it to  *)
(* the sequence of the keys each computation takes as inputs; `keys` is    *)
(* the list of the function.  A key is its string.                         *)
(***************************************************************************)
\* Key + tag
add_tag(k, tag) == k \o "+" \o tag

\* c.add(key, computation, *inputs)
c_add(graph, key, inputs) ==
    [k \in DOMAIN graph \cup {key} |-> IF k = key THEN inputs ELSE graph[k]]

\* if source == "IKARUS": ... elif source is None: ... else: raise ValueError
source_raises_mut_never(source) == FALSE
source_raises(source) == source # "IKARUS" /\ source # None

\* keys.append("transport nonldv::ixmp+ikarus") for IKARUS, nothing for None.
source_keys(source) ==
    IF source = "IKARUS" THEN <<"transport nonldv::ixmp+ikarus">> ELSE <<>>

\* for k in map(Key, list(keys[:-1])): c.add(k + "input", ...);
\* c.add(k + "emi", ...); keys.append(k + "emi")
RECURSIVE emissions(_, _, _)
emissions(todo, keys, graph) ==
    IF todo = <<>> THEN [keys |-> keys, graph |-> graph]
    ELSE LET k == Head(todo)
             with_input == c_add(graph, add_tag(k, "input"), <<k>>)
             with_emi == c_add(with_input, add_tag(k, "emi"),
                               <<"context", add_tag(k, "input")>>)
         IN  emissions(Tail(todo), Append(keys, add_tag(k, "emi")), with_emi)

\* The keys that other(c, base) adds; it returns the last one.
other_added(graph, base) ==
    LET g1 == c_add(graph, "broadcast:c-t:other transport", <<"t::transport">>)
        g2 == c_add(g1, "energy:c-nl-t:transport other+0",
                    <<base, "broadcast:c-t:other transport">>)
        g3 == c_add(g2, "energy:c-nl-t-y:transport other+1+0",
                    <<"energy:c-nl-t:transport other+0", "gdp_index">>)
        g4 == c_add(g3, "energy:c-nl-t-y:transport other+1+1",
                    <<"energy:c-nl-t-y:transport other+1+0">>)
        g5 == c_add(g4, "bound_activity_lo::transport other+ixmp",
                    <<"energy:c-nl-t-y:transport other+1+1">>)
        g6 == c_add(g5, "energy:c-nl-t-y:transport other+1+2",
                    <<"energy:c-nl-t-y:transport other+1+0",
                      "energy:c-nl-t-y:transport other+1+0">>)
        g7 == c_add(g6, "energy:c-nl-t-y:transport other+1+3",
                    <<"energy:c-nl-t-y:transport other+1+2">>)
        g8 == c_add(g7, "input::transport other+ixmp",
                    <<"energy:c-nl-t-y:transport other+1+3">>)
    IN  c_add(g8, "transport other::ixmp",
              <<"bound_activity_lo::transport other+ixmp",
                "input::transport other+ixmp">>)

\* The keys that bound_activity_lo(c) adds; it returns the last one.
bound_activity_lo_added(graph) ==
    LET g1 == c_add(graph, "bound_activity_lo:n-t-y:transport minimum+0",
                    <<"n::ex world", "t::transport", "y0", "config">>)
    IN  c_add(g1, "bound_activity_lo:n-t-y:transport minimum+ixmp",
              <<"bound_activity_lo:n-t-y:transport minimum+0">>)

\* The keys of the IEA energy data (lines 88-107).
iea_added(graph) ==
    LET g1 == c_add(graph, "energy:n-product-flow:iea+0",
                    <<"energy:n-y-product-flow:iea">>)
        g2 == c_add(g1, "energy:n-product-flow:iea+1",
                    <<"energy:n-product-flow:iea+0", "groups::iea to transport">>)
        g3 == c_add(g2, "energy:commodity-flow-node_loc:iea+0",
                    <<"energy:n-product-flow:iea+1">>)
        g4 == c_add(g3, "energy:commodity-node_loc:iea+1",
                    <<"energy:commodity-flow-node_loc:iea+0">>)
    IN  c_add(g4, "energy other csv", <<"energy:commodity-node_loc:iea+1">>)

(***************************************************************************)
(* The Computer and the configuration prepare_computer is called with.     *)
(***************************************************************************)
\* context.transport.data_source.non_LDV
NldvSources == {"IKARUS", None, "ikarus", "IEA", ""}

\* The keys that may be in the graph before the call, besides "context".
NldvOptionalKeys ==
    {"load factor nonldv:t:exo", "energy:n-y-product-flow:iea",
     "energy:c-nl:transport other"}

NldvGraphs ==
    {[k \in present \cup {"context"} |-> <<>>] :
        present \in SUBSET NldvOptionalKeys}

NldvInit ==
    /\ CostToolsIdle
    /\ RegIdle
    /\ ChnIdle
    /\ DemIdle
    /\ nldv_pc = "source"
    /\ nldv_source \in NldvSources
    /\ nldv_keys = <<>>
    /\ nldv_graph \in NldvGraphs
    /\ nldv_raised = ""

\* Lines 58-69: the source is read and checked.
prepare_computer_source ==
    /\ nldv_pc = "source"
    /\ IF source_raises(nldv_source)
       THEN /\ nldv_pc' = "raised"
            /\ nldv_raised' = "ValueError"
            /\ nldv_keys' = nldv_keys
       ELSE /\ nldv_pc' = "2W"
            /\ nldv_raised' = nldv_raised
            /\ nldv_keys' = source_keys(nldv_source)
    /\ UNCHANGED <<nldv_source, nldv_graph, notNldvVars>>

\* Line 72: keys.append(single_key(c.add("transport 2W::ixmp", ...)))
prepare_computer_2w ==
    /\ nldv_pc = "2W"
    /\ nldv_graph' = c_add(nldv_graph, "transport 2W::ixmp", <<"context">>)
    /\ nldv_keys' = Append(nldv_keys, "transport 2W::ixmp")
    /\ nldv_pc' = "emissions"
    /\ UNCHANGED <<nldv_source, nldv_raised, notNldvVars>>

\* Lines 75-78: the emission factors of the keys before the last one.
prepare_computer_emissions ==
    /\ nldv_pc = "emissions"
    /\ LET done == emissions(SubSeq(nldv_keys, 1, Len(nldv_keys) - 1),
                             nldv_keys, nldv_graph)
       IN  /\ nldv_keys' = done.keys
           /\ nldv_graph' = done.graph
    /\ nldv_pc' = "usage"
    /\ UNCHANGED <<nldv_source, nldv_raised, notNldvVars>>

\* Lines 81-107: the usage technologies and the IEA energy data.
prepare_computer_usage ==
    /\ nldv_pc = "usage"
    /\ nldv_keys' = Append(nldv_keys, "transport nonldv usage::ixmp")
    /\ nldv_graph' =
         iea_added(c_add(nldv_graph, "transport nonldv usage::ixmp",
                         <<"load factor nonldv:t:exo", "t::transport modes",
                           "n::ex world", "y::model">>))
    /\ nldv_pc' = "other"
    /\ UNCHANGED <<nldv_source, nldv_raised, notNldvVars>>

\* Lines 110-114: c.apply(other, k) raises MissingKeyError, which is caught,
\* when k is not in the graph.
prepare_computer_other_missing ==
    /\ nldv_pc = "other"
    /\ "energy:c-nl:transport other" \notin DOMAIN nldv_graph
    /\ nldv_pc' = "bound"
    /\ UNCHANGED <<nldv_source, nldv_keys, nldv_graph, nldv_raised,
                   notNldvVars>>

\* With k in the graph, other() starts (line 220) with
\* `assert {"c", "n"} == set(base.dims)`, and the dimensions of k are c and
\* nl: AssertionError, which nothing catches.
prepare_computer_other_assert ==
    /\ nldv_pc = "other"
    /\ "energy:c-nl:transport other" \in DOMAIN nldv_graph
    /\ nldv_pc' = "raised"
    /\ nldv_raised' = "AssertionError"
    /\ UNCHANGED <<nldv_source, nldv_keys, nldv_graph, notNldvVars>>

\* The same when the interpreter runs without assertions (python -O).
prepare_computer_other ==
    /\ nldv_pc = "other"
    /\ "energy:c-nl:transport other" \in DOMAIN nldv_graph
    /\ nldv_graph' = other_added(nldv_graph, "energy:c-nl:transport other")
    /\ nldv_keys' = Append(nldv_keys, "transport other::ixmp")
    /\ nldv_pc' = "bound"
    /\ UNCHANGED <<nldv_source, nldv_raised, notNldvVars>>

\* Line 117: keys.extend(iter_keys(c.apply(bound_activity_lo)))
prepare_computer_bound ==
    /\ nldv_pc = "bound"
    /\ nldv_graph' = bound_activity_lo_added(nldv_graph)
    /\ nldv_keys' =
         Append(nldv_keys, "bound_activity_lo:n-t-y:transport minimum+ixmp")
    /\ nldv_pc' = "merge"
    /\ UNCHANGED <<nldv_source, nldv_raised, notNldvVars>>

\* Lines 120-122: c.add(k_all, "merge_data", *keys);
\* c.add("transport_data", __name__, key=k_all)
prepare_computer_merge ==
    /\ nldv_pc = "merge"
    /\ nldv_graph' = c_add(c_add(nldv_graph, "transport nonldv::ixmp", nldv_keys),
                           "transport_data", <<"transport nonldv::ixmp">>)
    /\ nldv_pc' = "done"
    /\ UNCHANGED <<nldv_source, nldv_keys, nldv_raised, notNldvVars>>

NldvNext ==
    \/ prepare_computer_source
    \/ prepare_computer_2w
    \/ prepare_computer_emissions
    \/ prepare_computer_usage
    \/ prepare_computer_other_missing
    \/ prepare_computer_other_assert
    \/ prepare_computer_other
    \/ prepare_computer_bound
    \/ prepare_computer_merge

SpecNonLdv == NldvInit /\ [][NldvNext]_vars

\* The keys merged into "transport nonldv::ixmp".
Merged ==
    IF "transport nonldv::ixmp" \in DOMAIN nldv_graph
    THEN {nldv_graph["transport nonldv::ixmp"][n] :
            n \in DOMAIN nldv_graph["transport nonldv::ixmp"]}
    ELSE {}

\* The keys of the source data, wherever they show: in the list, in the graph
\* or among the inputs of a computation.
SourceKeysSeen ==
    {k \in {nldv_keys[n] : n \in DOMAIN nldv_keys} \cup DOMAIN nldv_graph
             \cup UNION {{nldv_graph[g][n] : n \in DOMAIN nldv_graph[g]}
                           : g \in DOMAIN nldv_graph} :
        k \in {"transport nonldv::ixmp+ikarus",
               "transport nonldv::ixmp+ikarus+input",
               "transport nonldv::ixmp+ikarus+emi"}}

\* C14: with "IKARUS" the key "transport nonldv::ixmp+ikarus" is among the
\* keys merged into "transport nonldv::ixmp"; with None no key of source data
\* is added; with any other source ValueError is raised and the graph is
\* still one the function was called with.
C14_SourceAccepted ==
    /\ (nldv_source = "IKARUS" /\ nldv_pc = "done")
         => "transport nonldv::ixmp+ikarus" \in Merged
    /\ nldv_source = None => SourceKeysSeen = {}
    /\ nldv_source \notin {"IKARUS", None} =>
         /\ nldv_pc \in {"source", "raised"}
         /\ nldv_pc = "raised" => nldv_raised = "ValueError"
         /\ nldv_keys = <<>>
         /\ nldv_graph \in NldvGraphs
    /\ nldv_raised = "ValueError" => nldv_source \notin {"IKARUS", None}

\* prepare_computer has finished with the source "IKARUS", whose key is
\* merged together with the key of its emission factors.
C14_Witness ==
    /\ nldv_pc = "done"
    /\ nldv_source = "IKARUS"
    /\ {"transport nonldv::ixmp+ikarus", "transport nonldv::ixmp+ikarus+emi",
        "transport 2W::ixmp"} \subseteq Merged

(***************************************************************************)
(* model/material/data_util.py: modify_demand_and_hist_activity.           *)
(*                                                                         *)
(* The scenario holds the data of its last commit (scen_committed) and the *)
(* data as changed since (scen_data), which scen.par reads and add_par     *)
(* writes.  A row of "demand" is a node, a commodity and a value; a row of *)
(* "historical_activity" a node_loc, a technology and a value.  A share    *)
(* is a number of tenths.  dem_raised lists how each finished call ended:  *)
(* "done", or the step at which a call on the scenario raised.             *)
(***************************************************************************)
tec_therm ==
    {"biomass_i", "coal_i", "elec_i", "eth_i", "foil_i", "gas_i", "h2_i",
     "heat_i", "hp_el_i", "hp_gas_i", "loil_i", "meth_i", "solar_i"}
tec_fs ==
    {"coal_fs", "ethanol_fs", "foil_fs", "gas_fs", "loil_fs", "methanol_fs"}
tec_sp ==
    {"sp_coal_I", "sp_el_I", "sp_eth_I", "sp_liq_I", "sp_meth_I", "h2_fc_I"}

\* scen.par("demand", filters={"commodity": commodity})
par_demand(data, commodity) == {q \in data.demand : q.commodity = commodity}

\* scen.par("historical_activity", filters={"technology": technologies})
par_historical_activity(data, technologies) ==
    {q \in data.historical_activity : q.technology \in technologies}

\* value * (1 - share)
reduced(value, share) == DecTimes(value, Decimal(10 - share, -1))

\* for r in df_new["REGION"]: r_MESSAGE = "R11_" + r;
\* useful.loc[useful["node"] == r_MESSAGE, "value"] *= 1 - share of r
reduce_demand(rows, shares) ==
    {IF \E reg \in DOMAIN shares : q.node = "R11_" \o reg
     THEN [q EXCEPT !.value =
             reduced(q.value,
                     shares[CHOOSE reg \in DOMAIN shares : q.node = "R11_" \o reg])]
     ELSE q : q \in rows}

\* the same for df_hist.loc[df_hist["node_loc"] == r_MESSAGE, "value"]
reduce_hist(rows, shares) ==
    {IF \E reg \in DOMAIN shares : q.node_loc = "R11_" \o reg
     THEN [q EXCEPT !.value =
             reduced(q.value,
                     shares[CHOOSE reg \in DOMAIN shares :
                                       q.node_loc = "R11_" \o reg])]
     ELSE q : q \in rows}

\* scen.add_par("demand", rows): the values of the rows replace those stored
\* under the same node and commodity.
add_par_demand_mut_keep(data, rows) == data
add_par_demand(data, rows) ==
    [data EXCEPT !.demand =
        {q \in data.demand :
            ~ \E w \in rows : w.node = q.node /\ w.commodity = q.commodity}
        \cup rows]

\* scen.add_par("historical_activity", rows)
add_par_historical_activity(data, rows) ==
    [data EXCEPT !.historical_activity =
        {q \in data.historical_activity :
            ~ \E w \in rows : /\ w.node_loc = q.node_loc
                              /\ w.technology = q.technology}
        \cup rows]

(***************************************************************************)
(* The scenario and the shares the function is run with.                   *)
(***************************************************************************)
\* How many times the function is run on the scenario.
MaxDemRuns == 2

DemRegions == {"CPA", "NAM"}

\* df_therm_new, df_spec_new and df_feed_new for the regions of `regions`;
\* i_feed is 0.7 for every region (line 81).
DemShares(regions, therm, spec) ==
    [i_therm |-> [reg \in regions |-> therm],
     i_spec |-> [reg \in regions |-> spec],
     i_feed |-> [reg \in regions |-> 7]]

DemDemand ==
    {[node |-> "R11_" \o reg, commodity |-> c, value |-> Decimal(100, 0)]
       : reg \in DemRegions, c \in {"i_therm", "i_spec", "i_feed", "rc_spec"}}

DemHist ==
    {[node_loc |-> "R11_" \o reg, technology |-> t, value |-> Decimal(40, 0)]
       : reg \in DemRegions, t \in {"coal_i", "sp_el_I", "coal_fs", "coal_ppl"}}

DemInit ==
    /\ CostToolsIdle
    /\ RegIdle
    /\ ChnIdle
    /\ NldvIdle
    /\ dem_pc = "start"
    /\ \E regions \in SUBSET DemRegions, therm \in {2, 5}, spec \in {2, 5} :
         dem_shares = DemShares(regions, therm, spec)
    /\ scen_committed = [demand |-> DemDemand, historical_activity |-> DemHist]
    /\ scen_data = scen_committed
    /\ scen_checked_out = FALSE
    /\ useful = <<>>
    /\ df_hist = <<>>
    /\ dem_raised = <<>>
    /\ dem_runs = 1

\* Lines 152-187: the parameters are read and the values reduced in memory.
modify_read ==
    /\ dem_pc = "start"
    /\ useful' =
         <<reduce_demand(par_demand(scen_data, "i_therm"), dem_shares.i_therm),
           reduce_demand(par_demand(scen_data, "i_spec"), dem_shares.i_spec),
           reduce_demand(par_demand(scen_data, "i_feed"), dem_shares.i_feed)>>
    /\ df_hist' =
         <<reduce_hist(par_historical_activity(scen_data, tec_therm),
                       dem_shares.i_therm),
           reduce_hist(par_historical_activity(scen_data, tec_sp),
                       dem_shares.i_spec),
           reduce_hist(par_historical_activity(scen_data, tec_fs),
                       dem_shares.i_feed)>>
    /\ dem_pc' = "check_out_1"
    /\ UNCHANGED <<dem_shares, scen_committed, scen_data, scen_checked_out,
                   dem_raised, dem_runs, notDemVars>>

\* Line 189: scen.check_out().  On a scenario that an earlier call left
\* checked out the library either raises RuntimeError or goes on.
modify_check_out_1 ==
    /\ dem_pc = "check_out_1"
    /\ scen_checked_out' = TRUE
    /\ dem_pc' = "demand_1"
    /\ UNCHANGED <<dem_shares, scen_committed, scen_data, useful, df_hist,
                   dem_raised, dem_runs, notDemVars>>

modify_check_out_1_raises ==
    /\ dem_pc = "check_out_1"
    /\ scen_checked_out
    /\ dem_pc' = "raised"
    /\ dem_raised' = Append(dem_raised, "check_out_1")
    /\ UNCHANGED <<dem_shares, scen_committed, scen_data, scen_checked_out,
                   useful, df_hist, dem_runs, notDemVars>>

\* Lines 190-192: scen.add_par("demand", ...) for the three frames.
modify_add_demand(n) ==
    /\ dem_pc = "demand_" \o ToString(n)
    /\ scen_data' = add_par_demand(scen_data, useful[n])
    /\ dem_pc' = IF n < 3 THEN "demand_" \o ToString(n + 1) ELSE "commit_1"
    /\ UNCHANGED <<dem_shares, scen_committed, scen_checked_out, useful,
                   df_hist, dem_raised, dem_runs, notDemVars>>

\* Line 193: scen.commit("Demand values adjusted")
modify_commit_1 ==
    /\ dem_pc = "commit_1"
    /\ scen_committed' = scen_data
    /\ scen_checked_out' = FALSE
    /\ dem_pc' = "check_out_2"
    /\ UNCHANGED <<dem_shares, scen_data, useful, df_hist, dem_raised,
                   dem_runs, notDemVars>>

\* Line 195: scen.check_out()
modify_check_out_2 ==
    /\ dem_pc = "check_out_2"
    /\ scen_checked_out' = TRUE
    /\ dem_pc' = "hist_1"
    /\ UNCHANGED <<dem_shares, scen_committed, scen_data, useful, df_hist,
                   dem_raised, dem_runs, notDemVars>>

\* Lines 196-198: scen.add_par("historical_activity", ...) for the three
\* frames.
modify_add_hist(n) ==
    /\ dem_pc = "hist_" \o ToString(n)
    /\ scen_data' = add_par_historical_activity(scen_data, df_hist[n])
    /\ dem_pc' = IF n < 3 THEN "hist_" \o ToString(n + 1) ELSE "commit_2"
    /\ UNCHANGED <<dem_shares, scen_committed, scen_checked_out, useful,
                   df_hist, dem_raised, dem_runs, notDemVars>>

\* Lines 199-200: scen.commit(...), the last statement on the scenario.
modify_commit_2 ==
    /\ dem_pc = "commit_2"
    /\ scen_committed' = scen_data
    /\ scen_checked_out' = FALSE
    /\ dem_pc' = "done"
    /\ dem_raised' = Append(dem_raised, "done")
    /\ UNCHANGED <<dem_shares, scen_data, useful, df_hist, dem_runs,
                   notDemVars>>

\* The steps of the first and of the second transaction.
FirstTransaction == {"demand_1", "demand_2", "demand_3", "commit_1"}
SecondTransaction == {"check_out_2", "hist_1", "hist_2", "hist_3", "commit_2"}

\* A call on the scenario raises: the function has no handler, so the
\* exception leaves it and the scenario stays as it is.
modify_raises ==
    /\ dem_pc \in FirstTransaction \cup SecondTransaction
    /\ dem_pc' = "raised"
    /\ dem_raised' = Append(dem_raised, dem_pc)
    /\ UNCHANGED <<dem_shares, scen_committed, scen_data, scen_checked_out,
                   useful, df_hist, dem_runs, notDemVars>>

\* The function is run again on the same scenario.
modify_again ==
    /\ dem_pc \in {"raised", "done"}
    /\ dem_runs < MaxDemRuns
    /\ dem_runs' = dem_runs + 1
    /\ dem_pc' = "start"
    /\ useful' = <<>>
    /\ df_hist' = <<>>
    /\ UNCHANGED <<dem_shares, scen_committed, scen_data, scen_checked_out,
                   dem_raised, notDemVars>>

DemNext ==
    \/ modify_read
    \/ modify_check_out_1
    \/ modify_check_out_1_raises
    \/ \E n \in 1..3 : modify_add_demand(n)
    \/ modify_commit_1
    \/ modify_check_out_2
    \/ \E n \in 1..3 : modify_add_hist(n)
    \/ modify_commit_2
    \/ modify_raises
    \/ modify_again

SpecDemand == DemInit /\ [][DemNext]_vars

\* The demand with the three industrial commodities reduced once.
ReducedOnce(demand) ==
    {q \in demand : q.commodity \notin {"i_therm", "i_spec", "i_feed"}}
    \cup reduce_demand({q \in demand : q.commodity = "i_therm"},
                       dem_shares.i_therm)
    \cup reduce_demand({q \in demand : q.commodity = "i_spec"},
                       dem_shares.i_spec)
    \cup reduce_demand({q \in demand : q.commodity = "i_feed"},
                       dem_shares.i_feed)

\* The historical activity after the first n of the three add_par calls of
\* the second transaction.
HistAfter(n) ==
    {q \in DemHist :
        /\ n >= 1 => q.technology \notin tec_therm
        /\ n >= 2 => q.technology \notin tec_sp
        /\ n >= 3 => q.technology \notin tec_fs}
    \cup (IF n >= 1
          THEN reduce_hist({q \in DemHist : q.technology \in tec_therm},
                           dem_shares.i_therm)
          ELSE {})
    \cup (IF n >= 2
          THEN reduce_hist({q \in DemHist : q.technology \in tec_sp},
                           dem_shares.i_spec)
          ELSE {})
    \cup (IF n >= 3
          THEN reduce_hist({q \in DemHist : q.technology \in tec_fs},
                           dem_shares.i_feed)
          ELSE {})

\* How many add_par calls of the second transaction were made before the
\* step `step` raised.
HistCalls(step) ==
    CASE step \in {"check_out_2", "hist_1"} -> 0
      [] step = "hist_2" -> 1
      [] step = "hist_3" -> 2
      [] step = "commit_2" -> 3

\* The first run raised in its second transaction.
FirstRunFailedLate ==
    /\ Len(dem_raised) >= 1
    /\ dem_raised[1] \in SecondTransaction

====
